---------------------------- MODULE Spec2Model ----------------------------
(***************************************************************************)
(* HabitOS backend: the conversational state machine of /api/talk          *)
(* (app/routers/chat.py), the direct scoring endpoint /api/predict         *)
(* (app/routers/prediction.py) and the terminal client that drives the     *)
(* conversation (terminal_chat.py).                                        *)
(*                                                                         *)
(* Representation.                                                         *)
(*   - A text is a sequence of one-character strings.                      *)
(*   - A Python float is an integer number of TENTHS (8.5 is 85).  The     *)
(*     texts of Messages carry at most one fractional digit, so the        *)
(*     conversion float(...) is exact in this unit.                        *)
(*   - An Optional[T] is a sequence of length at most one: None is <<>>    *)
(*     and a value v is <<v>>.                                             *)
(*   - A dict is a function whose domain is the set of its keys.           *)
(*   - A heuristic sub-score is an integer number of 1/120 points, a       *)
(*     blended score an integer number of 1/1200 points: every division    *)
(*     of the scoring code is exact in these units.  daily_score is an     *)
(*     integer number of HUNDREDTHS of a point (round(final_score, 2)).    *)
(*   - bot_message is a record: the name of the template (set) the text is  *)
(*     taken from and, for the report, its history-dependent sections;     *)
(*     random.choice among the texts of one set is not modelled.           *)
(***************************************************************************)
EXTENDS Integers, Sequences, FiniteSets, TLC

-----------------------------------------------------------------------------
(* Python built-ins used by the handlers *)

None == <<>>

Some(v) == <<v>>

Min(a, b) == IF a <= b THEN a ELSE b

Max(a, b) == IF a >= b THEN a ELSE b

EmptyDict == [k \in {} |-> 0]

DictGet(d, k, default) == IF k \in DOMAIN d THEN d[k] ELSE default

DictSet(d, k, v) == [x \in (DOMAIN d) \cup {k} |-> IF x = k THEN v ELSE d[x]]

DictPop(d, k) == [x \in (DOMAIN d) \ {k} |-> d[x]]

\* the letters that have two cases
LowerCase ==
    <<"a", "b", "c", "d", "e", "f", "g", "h", "i", "j", "k", "l", "m">> \o
    <<"n", "o", "p", "q", "r", "s", "t", "u", "v", "w", "x", "y", "z">>

UpperCase ==
    <<"A", "B", "C", "D", "E", "F", "G", "H", "I", "J", "K", "L", "M">> \o
    <<"N", "O", "P", "Q", "R", "S", "T", "U", "V", "W", "X", "Y", "Z">>

\* str.lower() of one character
Lower(c) ==
    IF \E n \in 1..Len(UpperCase) : UpperCase[n] = c
    THEN LowerCase[CHOOSE n \in 1..Len(UpperCase) : UpperCase[n] = c]
    ELSE c

LowerText(s) == [i \in 1..Len(s) |-> Lower(s[i])]

RECURSIVE LStrip(_)
LStrip(s) == IF s # <<>> /\ Head(s) = " " THEN LStrip(Tail(s)) ELSE s

RECURSIVE RStrip(_)
RStrip(s) ==
    IF s # <<>> /\ s[Len(s)] = " " THEN RStrip(SubSeq(s, 1, Len(s) - 1)) ELSE s

\* str.strip()
Strip(s) == RStrip(LStrip(s))

\* keyword in text
Contains(text, kw) ==
    \E i \in 1..(Len(text) - Len(kw) + 1) : SubSeq(text, i, i + Len(kw) - 1) = kw

-----------------------------------------------------------------------------
(* chat.py: extract_number, check_go_back *)

DigitChars == {"0", "1", "2", "3", "4", "5", "6", "7", "8", "9"}

DigitVal(c) ==
    CASE c = "0" -> 0 [] c = "1" -> 1 [] c = "2" -> 2 [] c = "3" -> 3
      [] c = "4" -> 4 [] c = "5" -> 5 [] c = "6" -> 6 [] c = "7" -> 7
      [] c = "8" -> 8 [] c = "9" -> 9

\* the length of the longest run of digits of s that starts at position i
RECURSIVE DigitRun(_, _)
DigitRun(s, i) ==
    IF i <= Len(s) /\ s[i] \in DigitChars THEN 1 + DigitRun(s, i + 1) ELSE 0

\* int(digits), 0 for the empty run
RECURSIVE IntVal(_)
IntVal(ds) ==
    IF ds = <<>> THEN 0
    ELSE 10 * IntVal(SubSeq(ds, 1, Len(ds) - 1)) + DigitVal(ds[Len(ds)])

\* The match of the pattern [-+]?\d*\.?\d+ that starts AT position i, as
\* [sign, int, frac] (the lengths of its three parts; frac counts the digits
\* after the point), or None.  \d* is greedy and gives digits back to \d+:
\* a run of digits followed by ".<digits>" matches whole, a run of digits not
\* so followed matches as an integer, no digit at all does not match.
MatchAt(s, i) ==
    LET sg == IF i <= Len(s) /\ s[i] \in {"-", "+"} THEN 1 ELSE 0
        d  == DigitRun(s, i + sg)
        k  == i + sg + d
        f  == IF k <= Len(s) /\ s[k] = "." THEN DigitRun(s, k + 1) ELSE 0
    IN  IF f > 0 THEN Some([sign |-> sg, int |-> d, frac |-> f])
        ELSE IF d > 0 THEN Some([sign |-> sg, int |-> d, frac |-> 0])
        ELSE None

\* float(text) of a match, in tenths
FloatOf(s, i, m) ==
    LET j    == i + m.sign
        ip   == IntVal(SubSeq(s, j, j + m.int - 1))
        fp   == IF m.frac > 0 THEN DigitVal(s[j + m.int + 1]) ELSE 0
        mag  == 10 * ip + fp
    IN  IF m.sign = 1 /\ s[i] = "-" THEN 0 - mag ELSE mag

\* mutant: the last match instead of the first
extract_number_LastMatch(text) ==
    LET starts == {i \in 1..Len(text) : MatchAt(text, i) # None}
    IN  IF starts = {} THEN None
        ELSE LET i == CHOOSE x \in starts : \A y \in starts : x >= y
             IN  Some(FloatOf(text, i, MatchAt(text, i)[1]))

\* re.findall(...)[0]: the leftmost match
extract_number(text) ==
    LET starts == {i \in 1..Len(text) : MatchAt(text, i) # None}
    IN  IF starts = {} THEN None
        ELSE LET i == CHOOSE x \in starts : \A y \in starts : x <= y
             IN  Some(FloatOf(text, i, MatchAt(text, i)[1]))

back_keywords ==
    { <<"b", "a", "c", "k">>,
      <<"u", "n", "d", "o">>,
      <<"p", "r", "e", "v", "i", "o", "u", "s">>,
      <<"g", "o", " ", "b", "a", "c", "k">>,
      <<"r", "e", "s", "t", "a", "r", "t">>,
      <<"s", "t", "a", "r", "t", " ", "o", "v", "e", "r">> }

\* mutant: the message is compared as typed
check_go_back_CaseSensitive(message) ==
    \E keyword \in back_keywords : Contains(message, keyword)

check_go_back(message) ==
    \E keyword \in back_keywords : Contains(LowerText(message), keyword)

\* what a user types
Messages ==
    { <<"s", "t", "a", "r", "t">>,
      <<"a", "b", "o", "u", "t", " ", "8", ".", "5", " ", "h", "o", "u", "r", "s">>,
      <<"0", ".", "5">>,
      <<"2", "5">>,
      <<"-", "3">>,
      <<"b", "a", "c", "k">>,
      <<"G", "o", " ", "b", "a", "c", "k", " ", "5">>,
      <<" ", "U", "N", "D", "O", " ", "3", "0", " ">> }

\* what a user types for the last metric, the glasses of water
ReportMessages == { <<"0", ".", "5">>, <<"4">>, <<"6">>, <<"9">> }

\* The first lines of the /talk handler on each text a user types:
\* message = user_message.lower().strip(), number_val = extract_number(message)
\* and the test check_go_back(message), computed once per text.
Understood ==
    [user_message \in Messages \cup ReportMessages |->
        LET message == Strip(LowerText(user_message))
        IN  [message    |-> message,
             number_val |-> extract_number(message),
             go_back    |-> check_go_back(message)]]

-----------------------------------------------------------------------------
(* chat.py: get_user_history, calculate_averages *)

DataKeys ==
    {"sleep_hours", "work_intensity", "stress_level", "mood_score",
     "screen_time", "hydration"}

RECURSIVE SumOver(_, _)
SumOver(rows, field) ==
    IF rows = <<>> THEN 0 ELSE Head(rows)[field] + SumOver(Tail(rows), field)

\* round(a / b) to an integer, halves to the even neighbour (b > 0)
RoundDiv(a, b) ==
    LET q == a \div b
        r == a % b
    IN  IF 2 * r < b THEN q
        ELSE IF 2 * r > b THEN q + 1
        ELSE IF q % 2 = 0 THEN q ELSE q + 1

\* the rows of habit_sessions of one user created in the last `days` days
RECURSIVE RowsOf(_, _, _)
RowsOf(table, user_id, cutoff) ==
    IF table = <<>> THEN <<>>
    ELSE LET rest == RowsOf(Tail(table), user_id, cutoff)
         IN  IF Head(table).user_id = user_id /\ Head(table).created_at >= cutoff
             THEN <<Head(table)>> \o rest
             ELSE rest

\* mutant: the sessions are not limited to the last days
get_user_history_NoCutoff(table, user_id, today) == RowsOf(table, user_id, 0)

get_user_history(table, user_id, today) == RowsOf(table, user_id, today - 7)

\* {} (falsy) without sessions; averages are in tenths (round(..., 1))
calculate_averages(rows) ==
    IF rows = <<>> THEN EmptyDict
    ELSE LET total == Len(rows)
         IN  [avg_sleep     |-> RoundDiv(SumOver(rows, "sleep_hours"), total),
              avg_work      |-> RoundDiv(SumOver(rows, "work_intensity"), total),
              avg_stress    |-> RoundDiv(SumOver(rows, "stress_level"), total),
              avg_mood      |-> RoundDiv(SumOver(rows, "mood_score"), total),
              avg_screen    |-> RoundDiv(SumOver(rows, "screen_time"), total),
              avg_hydration |-> RoundDiv(SumOver(rows, "hydration"), total),
              avg_score     |-> RoundDiv(SumOver(rows, "daily_score"), 10 * total),
              session_count |-> total]

\* Python truth of a history value: None and {} are both false
Truthy(history) == DOMAIN history # {}

\* Python truth of an Optional[int]: None and 0 are both false
IsTrue(user_id) == user_id # None /\ user_id[1] # 0

-----------------------------------------------------------------------------
(* chat.py: generate_recommendations.  A tip is the name of its text. *)

SleepTips(sleep) ==
    IF sleep < 50 THEN <<"sleep_running_on_fumes">>
    ELSE IF sleep < 60 THEN <<"sleep_bit_short">>
    ELSE IF sleep > 90 THEN <<"sleep_over_9_hours">>
    ELSE <<>>

StressTips(stress, history) ==
    IF stress >= 80
    THEN <<"stress_high">> \o
         (IF Truthy(history) /\ DictGet(history, "avg_stress", 0) >= 70
          THEN <<"stress_for_a_few_days">> ELSE <<>>)
    ELSE IF stress >= 60 THEN <<"stress_moderate">>
    ELSE <<>>

BurnoutTips(work, mood) ==
    IF work >= 80 /\ mood < 50 THEN <<"burnout">> ELSE <<>>

MoodTips(mood, history) ==
    IF mood <= 30 THEN <<"mood_tough_day">>
    ELSE IF mood < 50
    THEN <<"mood_bit_low">> \o
         (IF Truthy(history) /\ DictGet(history, "avg_mood", 100) >= 70
          THEN <<"mood_lower_than_usual">> ELSE <<>>)
    ELSE <<>>

SleepWorkTips(sleep, work) ==
    IF sleep < 70 /\ work >= 70 THEN <<"low_sleep_high_output">> ELSE <<>>

ScreenTips(screen) ==
    IF screen > 100 THEN <<"screen_a_lot">>
    ELSE IF screen > 60 THEN <<"screen_adding_up">>
    ELSE <<>>

HydrationTips(hydration) ==
    IF hydration < 30 THEN <<"hydration_dehydrated">>
    ELSE IF hydration < 50 THEN <<"hydration_more_water">>
    ELSE IF hydration >= 80 THEN <<"hydration_great">>
    ELSE <<>>

\* the first text also shows avg_score, a function of history alone
HistoryTips(history) ==
    IF Truthy(history) /\ DictGet(history, "session_count", 0) >= 3
    THEN LET avg_score == DictGet(history, "avg_score", 500)
         IN  IF avg_score >= 750 THEN <<"history_consistent">>
             ELSE IF avg_score >= 600 THEN <<"history_solid_week">>
             ELSE <<>>
    ELSE <<>>

GoodSpotTips(sleep, stress, mood) ==
    IF sleep >= 70 /\ stress <= 40 /\ mood >= 70 THEN <<"good_spot">> ELSE <<>>

\* mutant: the default directive is appended whatever the rules gave
generate_recommendations_DefaultAppended(data, history) ==
    LET sleep     == DictGet(data, "sleep_hours", 80)
        work      == DictGet(data, "work_intensity", 50)
        stress    == DictGet(data, "stress_level", 50)
        mood      == DictGet(data, "mood_score", 50)
        screen    == DictGet(data, "screen_time", 0)
        hydration == DictGet(data, "hydration", 0)
    IN  SleepTips(sleep) \o StressTips(stress, history)
          \o BurnoutTips(work, mood) \o MoodTips(mood, history)
          \o SleepWorkTips(sleep, work) \o ScreenTips(screen)
          \o HydrationTips(hydration) \o HistoryTips(history)
          \o GoodSpotTips(sleep, stress, mood) \o <<"balanced">>

\* mutant: the rule on the history is evaluated first
generate_recommendations_HistoryFirst(data, history) ==
    LET sleep     == DictGet(data, "sleep_hours", 80)
        work      == DictGet(data, "work_intensity", 50)
        stress    == DictGet(data, "stress_level", 50)
        mood      == DictGet(data, "mood_score", 50)
        screen    == DictGet(data, "screen_time", 0)
        hydration == DictGet(data, "hydration", 0)
        tips      == HistoryTips(history) \o SleepTips(sleep)
                       \o StressTips(stress, history)
                       \o BurnoutTips(work, mood) \o MoodTips(mood, history)
                       \o SleepWorkTips(sleep, work) \o ScreenTips(screen)
                       \o HydrationTips(hydration)
                       \o GoodSpotTips(sleep, stress, mood)
    IN  IF tips = <<>> THEN <<"balanced">> ELSE tips

generate_recommendations(data, history) ==
    LET sleep     == DictGet(data, "sleep_hours", 80)
        work      == DictGet(data, "work_intensity", 50)
        stress    == DictGet(data, "stress_level", 50)
        mood      == DictGet(data, "mood_score", 50)
        screen    == DictGet(data, "screen_time", 0)
        hydration == DictGet(data, "hydration", 0)
        tips      == SleepTips(sleep) \o StressTips(stress, history)
                       \o BurnoutTips(work, mood) \o MoodTips(mood, history)
                       \o SleepWorkTips(sleep, work) \o ScreenTips(screen)
                       \o HydrationTips(hydration) \o HistoryTips(history)
                       \o GoodSpotTips(sleep, stress, mood)
    IN  IF tips = <<>> THEN <<"balanced">> ELSE tips

-----------------------------------------------------------------------------
(* chat.py: get_trend_indicator, generate_trend_analysis.  The code         *)
(* computes diff_percent = ((current - average) / average) * 100 in binary  *)
(* floating point and compares it with 10 and -10.  For values given in     *)
(* tenths the double differs from the exact quotient by less than any       *)
(* distance between two values of the quotient, so the comparison comes out *)
(* as on the exact numbers unless the quotient is exactly 10 or -10; then   *)
(* the rounding errors of the subtraction and the division decide.          *)

\* The pairs <<current, average>>, in tenths, with current exactly 10% above
\* or below average, for which the double is beyond 10 or -10: e.g.
\* ((7.7 - 7.0) / 7.0) * 100 is 10.000000000000002.  These are all such
\* pairs with an average up to 24.0; for the other pairs up to 24.0 the
\* double is 10.0, -10.0 or within (9.999999999999993 for 3.3 and 3.0).
\* A pair of negative numbers behaves as the pair of their absolute values.
FloatBeyondDeadband ==
    { <<11, 10>>, <<22, 20>>, <<44, 40>>, <<77, 70>>, <<63, 70>>, <<88, 80>>,
      <<99, 90>>, <<81, 90>>, <<143, 130>>, <<117, 130>>, <<154, 140>>,
      <<126, 140>>, <<176, 160>>, <<198, 180>>, <<162, 180>>, <<231, 210>>,
      <<189, 210>>, <<253, 230>>, <<207, 230>> }

get_trend_indicator(current, average, lower_is_better) ==
    IF average = 0 THEN ""
    ELSE LET d      == (current - average) * 10
             magn(x) == IF x >= 0 THEN x ELSE 0 - x
             beyond == <<magn(current), magn(average)>> \in FloatBeyondDeadband
             above  == \/ IF average > 0 THEN d > average ELSE d < average
                       \/ d = average /\ beyond
             below  == \/ IF average > 0 THEN d < 0 - average ELSE d > 0 - average
                       \/ d = 0 - average /\ beyond
         IN  IF lower_is_better
             THEN IF below THEN "better_than_your_average"
                  ELSE IF above THEN "higher_than_your_average"
                  ELSE "consistent"
             ELSE IF above THEN "above_your_average"
                  ELSE IF below THEN "below_your_average"
                  ELSE "consistent"

\* one line of the trend section, left out when the indicator is empty
TrendLine(metric, trend) ==
    IF trend # "" THEN <<[line |-> metric, trend |-> trend]>> ELSE <<>>

\* the lines of the trend section; the empty text is <<>>
generate_trend_analysis(data, history) ==
    IF ~Truthy(history) \/ DictGet(history, "session_count", 0) = 0 THEN <<>>
    ELSE <<[line |-> "header", trend |-> ""]>>
           \o TrendLine("sleep",
                        get_trend_indicator(DictGet(data, "sleep_hours", 0),
                                            DictGet(history, "avg_sleep", 0), FALSE))
           \o TrendLine("stress",
                        get_trend_indicator(DictGet(data, "stress_level", 0),
                                            DictGet(history, "avg_stress", 0), TRUE))
           \o TrendLine("mood",
                        get_trend_indicator(DictGet(data, "mood_score", 0),
                                            DictGet(history, "avg_mood", 0), FALSE))
           \o <<[line |-> "sessions_this_week", trend |-> ""]>>

-----------------------------------------------------------------------------
(* ml_engine/loader.py: the predictors.  A predictor is the DummyModel or a  *)
(* loaded artifact; an artifact is a black box, modelled by the value it     *)
(* returns.  The regressor's output is in tenths, the classifier's and the   *)
(* clusterer's are whole numbers (the DummyModel's 5.0 is 5).                *)

DummyModel == [kind |-> "dummy", out |-> 0]

Artifact(v) == [kind |-> "artifact", out |-> v]

\* a file of trained_models/: whether it is there, whether joblib.load
\* succeeds on it, and what the predictor it holds returns
MissingFile == [exists |-> FALSE, loads |-> FALSE, out |-> 0]

CorruptFile == [exists |-> TRUE, loads |-> FALSE, out |-> 0]

TrainedFile(v) == [exists |-> TRUE, loads |-> TRUE, out |-> v]

\* mutant: whatever a file that is there holds is taken for a predictor
load_model_NoExcept(file) ==
    IF file.exists THEN Artifact(file.out) ELSE DummyModel

load_model(file) ==
    IF file.exists
    THEN IF file.loads THEN Artifact(file.out) ELSE DummyModel
    ELSE DummyModel

\* the three singletons the handlers use, loaded at import
LoadedModels(directory) ==
    [regressor  |-> load_model(directory["neuro_predictor_ann.pkl"]),
     classifier |-> load_model(directory["neuro_classifier.pkl"]),
     clusterer  |-> load_model(directory["neuro_clusterer.pkl"])]

\* a directory a set of predictors can have been loaded from
Installed(loaded) ==
    LET file(model) == IF model.kind = "dummy" THEN MissingFile ELSE TrainedFile(model.out)
    IN  [f \in {"neuro_predictor_ann.pkl", "neuro_classifier.pkl", "neuro_clusterer.pkl"} |->
            CASE f = "neuro_predictor_ann.pkl" -> file(loaded.regressor)
              [] f = "neuro_classifier.pkl" -> file(loaded.classifier)
              [] f = "neuro_clusterer.pkl" -> file(loaded.clusterer)]

\* model.predict(features)[0] of the regressor
PredictScore(model, features) == IF model.kind = "dummy" THEN 50 ELSE model.out

\* model.predict(features)[0] of the classifier and of the clusterer
PredictLabel(model, features) == IF model.kind = "dummy" THEN 5 ELSE model.out

\* PERSONA_NAMES.get(pred_cluster, "Unique Individual")
PersonaOf(pred_cluster) ==
    CASE pred_cluster = 0 -> "The Night Owl"
      [] pred_cluster = 1 -> "The Balanced Achiever"
      [] pred_cluster = 2 -> "The Workaholic"
      [] OTHER -> "Unique Individual"

DayTypeOf(pred_class) == IF pred_class = 1 THEN "Attack Mode" ELSE "Recovery Mode"

-----------------------------------------------------------------------------
(* chat.py: the score of the completion turn (sub-scores in 1/120 points)  *)

ScoreSleep(sleep) ==
    IF 70 <= sleep /\ sleep <= 90 THEN 25 * 120
    ELSE IF (60 <= sleep /\ sleep < 70) \/ (90 < sleep /\ sleep <= 100) THEN 20 * 120
    ELSE IF 50 <= sleep /\ sleep < 60 THEN 12 * 120
    ELSE Max(0, sleep * 20)                 \* sleep / 9 * 15

ScoreWork(work) ==
    IF 40 <= work /\ work <= 70 THEN 15 * 120
    ELSE IF (30 <= work /\ work < 40) \/ (70 < work /\ work <= 80) THEN 12 * 120
    ELSE 8 * 120

ScoreStress(stress) == Max(0, (100 - stress) * 24)      \* (10 - stress) / 10 * 20

ScoreMood(mood) == mood * 24                            \* mood / 10 * 20

ScoreScreen(screen) ==
    IF screen <= 30 THEN 10 * 120
    ELSE IF screen <= 60 THEN 7 * 120
    ELSE IF screen <= 100 THEN 4 * 120
    ELSE 1 * 120

ScoreHydration(hydration) == Min(hydration, 80) * 15    \* min(h, 8) / 8 * 10

HeuristicScore(data) ==
    ScoreSleep(DictGet(data, "sleep_hours", 0))
      + ScoreWork(DictGet(data, "work_intensity", 50))
      + ScoreStress(DictGet(data, "stress_level", 50))
      + ScoreMood(DictGet(data, "mood_score", 50))
      + ScoreScreen(DictGet(data, "screen_time", 0))
      + ScoreHydration(DictGet(data, "hydration", 0))

\* mutant: the weights of the blend are exchanged
BlendChat_ModelDominant(pred_score, heuristic_score) ==
    IF pred_score # 50 THEN 84 * pred_score + 3 * heuristic_score
    ELSE 10 * heuristic_score

\* 30% regressor, 70% heuristic unless the regressor returned 5.0; in 1/1200
BlendChat(pred_score, heuristic_score) ==
    IF pred_score # 50 THEN 36 * pred_score + 7 * heuristic_score
    ELSE 10 * heuristic_score

\* mutant: the score is not clamped
ClampScore_Unclamped(final_score) == final_score

\* min(100, max(0, final_score)), in 1/1200 points
ClampScore(final_score) == Min(100 * 1200, Max(0, final_score))

\* round(final_score, 2), in hundredths
RoundScore(final_score) == RoundDiv(final_score, 12)

ChatFeatures(data) ==
    [sleep_hours    |-> DictGet(data, "sleep_hours", 70),
     work_intensity |-> DictGet(data, "work_intensity", 50),
     stress_level   |-> DictGet(data, "stress_level", 50),
     mood_score     |-> DictGet(data, "mood_score", 50)]

\* final_score after the blend and the clamp, in 1/1200 points
ChatFinalScore(data, models) ==
    ClampScore(BlendChat(PredictScore(models.regressor, ChatFeatures(data)),
                         HeuristicScore(data)))

\* mutant: a user with history is given the persona of a regular
ChatPrediction_PersonaFromHistory(data, history, models) ==
    LET features     == ChatFeatures(data)
        pred_class   == PredictLabel(models.classifier, features)
        pred_cluster == PredictLabel(models.clusterer, features)
        final_score  == ChatFinalScore(data, models)
    IN  [daily_score        |-> RoundScore(final_score),
         day_classification |-> DayTypeOf(pred_class),
         persona            |-> IF Truthy(history) THEN "Regular"
                                ELSE PersonaOf(pred_cluster),
         recommendations    |-> generate_recommendations(data, history)]

\* mutant: the prediction dict is built without its persona
ChatPrediction_NoPersona(data, history, models) ==
    LET features     == ChatFeatures(data)
        pred_class   == PredictLabel(models.classifier, features)
        final_score  == ChatFinalScore(data, models)
    IN  [daily_score        |-> RoundScore(final_score),
         day_classification |-> DayTypeOf(pred_class),
         recommendations    |-> generate_recommendations(data, history)]

\* the prediction dict of the completion turn
ChatPrediction(data, history, models) ==
    LET features     == ChatFeatures(data)
        pred_class   == PredictLabel(models.classifier, features)
        pred_cluster == PredictLabel(models.clusterer, features)
        final_score  == ChatFinalScore(data, models)
    IN  [daily_score        |-> RoundScore(final_score),
         day_classification |-> DayTypeOf(pred_class),
         persona            |-> PersonaOf(pred_cluster),
         recommendations    |-> generate_recommendations(data, history)]

\* the score comparison of the report: None for the empty text, else the
\* direction and abs(diff) in tenths (the .1f of the text). The rounding is
\* that of the exact difference; where the difference lies exactly between
\* two tenths the code's binary floats decide the last digit, so on such
\* ties the points may differ by one tenth from the text (the direction and
\* the presence of the comparison do not)
ScoreComparison(final_score, history) ==
    IF Truthy(history) /\ DictGet(history, "avg_score", 0) # 0
    THEN LET diff == final_score - 120 * history["avg_score"]
         IN  IF diff > 0 THEN Some([direction |-> "above", points |-> RoundDiv(diff, 120)])
             ELSE IF diff < 0
             THEN Some([direction |-> "below", points |-> RoundDiv(0 - diff, 120)])
             ELSE Some([direction |-> "consistent", points |-> 0])
    ELSE None

\* the report: its score comparison and its trend section (the other parts
\* of the text repeat the prediction dict)
ReportMessage(data, history, models) ==
    [template         |-> "report",
     score_comparison |-> ScoreComparison(ChatFinalScore(data, models), history),
     trend_text       |-> IF Truthy(history)
                          THEN generate_trend_analysis(data, history) ELSE <<>>]

-----------------------------------------------------------------------------
(* chat.py: save_session_to_db and the /talk handler *)

save_session_to_db(table, user_id, data, prediction, today) ==
    Append(table,
           [id                 |-> Len(table) + 1,
            user_id            |-> user_id,
            sleep_hours        |-> DictGet(data, "sleep_hours", 0),
            work_intensity     |-> DictGet(data, "work_intensity", 0),
            stress_level       |-> DictGet(data, "stress_level", 0),
            mood_score         |-> DictGet(data, "mood_score", 0),
            screen_time        |-> DictGet(data, "screen_time", 0),
            hydration          |-> DictGet(data, "hydration", 0),
            daily_score        |-> prediction.daily_score,
            day_classification |-> prediction.day_classification,
            persona            |-> prediction.persona,
            created_at         |-> today])

\* a bot_message without variable sections
Text(template) == [template |-> template]

ChatResponse(bot_message, next_step, updated_data, prediction) ==
    [bot_message  |-> bot_message,
     next_step    |-> next_step,
     updated_data |-> updated_data,
     prediction   |-> prediction]

\* mutant: a go-back removes the metric of its own step
step_data_keys_OwnStep ==
    [k \in 2..6 |->
        CASE k = 2 -> "work_intensity" [] k = 3 -> "stress_level"
          [] k = 4 -> "mood_score" [] k = 5 -> "screen_time"
          [] k = 6 -> "hydration"]

\* the key a go-back at step k removes
step_data_keys ==
    [k \in 2..6 |->
        CASE k = 2 -> "sleep_hours" [] k = 3 -> "work_intensity"
          [] k = 4 -> "stress_level" [] k = 5 -> "mood_score"
          [] k = 6 -> "screen_time"]

\* mutant: a go-back removes the metrics of the two steps before
GoBack_RemovesTwo(step, data) ==
    IF step = 1
    THEN ChatResponse(Text("session_reset_welcome"), 0, data, None)
    ELSE ChatResponse(Text("returning_to_previous"), step - 1,
                      [x \in (DOMAIN data) \
                              {step_data_keys[k] : k \in {step, step - 1} \cap 2..6} |->
                          data[x]],
                      None)

\* mutant: every go-back starts the conversation again
GoBack_Restart(step, data) ==
    ChatResponse(Text("session_reset_welcome"), 0, EmptyDict, None)

\* mutant: a go-back keeps every metric
GoBack_KeepsData(step, data) ==
    IF step = 1
    THEN ChatResponse(Text("session_reset_welcome"), 0, data, None)
    ELSE ChatResponse(Text("returning_to_previous"), step - 1, data, None)

\* the "Go Back" branch
GoBack(step, data) ==
    IF step = 1
    THEN ChatResponse(Text("session_reset_welcome"), 0, data, None)
    ELSE ChatResponse(Text("returning_to_previous"),
                      step - 1,
                      IF step \in DOMAIN step_data_keys
                      THEN DictPop(data, step_data_keys[step]) ELSE data,
                      None)

\* mutant: only the upper bound is applied
Clamp_UpperOnly(lo, hi, number_val) == Min(hi, number_val)

\* max(lo, min(hi, number_val))
Clamp(lo, hi, number_val) == Max(lo, Min(hi, number_val))

\* steps 2..5: the key stored, its range and the texts
StepSpec(step) ==
    CASE step = 2 -> [key |-> "work_intensity", lo |-> 10, hi |-> 100]
      [] step = 3 -> [key |-> "stress_level",   lo |-> 10, hi |-> 100]
      [] step = 4 -> [key |-> "mood_score",     lo |-> 10, hi |-> 100]
      [] step = 5 -> [key |-> "screen_time",    lo |-> 0,  hi |-> 240]

\* mutant: after sleep the conversation goes on with stress (3)
SleepStep_SkipsWork(number_val, data) ==
    IF number_val = None
    THEN ChatResponse(Text("reprompt_number"), 1, data, None)
    ELSE IF number_val[1] < 0 \/ number_val[1] > 240
    THEN ChatResponse(Text("reprompt_range"), 1, data, None)
    ELSE ChatResponse(Text("prompt"), 3, DictSet(data, "sleep_hours", number_val[1]), None)

\* mutant: sleep is clamped to 0..24 and stored, like the other metrics
SleepStep_Clamps(number_val, data) ==
    IF number_val = None
    THEN ChatResponse(Text("reprompt_number"), 1, data, None)
    ELSE ChatResponse(Text("prompt"), 2,
                      DictSet(data, "sleep_hours", Max(0, Min(240, number_val[1]))),
                      None)

\* step 1: sleep is stored as typed when it is within 0..24, refused otherwise
SleepStep(number_val, data) ==
    IF number_val = None
    THEN ChatResponse(Text("reprompt_number"), 1, data, None)
    ELSE IF number_val[1] < 0 \/ number_val[1] > 240
    THEN ChatResponse(Text("reprompt_range"), 1, data, None)
    ELSE ChatResponse(Text("prompt"), 2, DictSet(data, "sleep_hours", number_val[1]), None)

\* mutant: every clamping step continues with the step after stress (4)
ClampStep_NextIsFour(step, number_val, data) ==
    IF number_val = None
    THEN ChatResponse(Text("reprompt_number"), step, data, None)
    ELSE LET spec == StepSpec(step)
             val  == Max(spec.lo, Min(spec.hi, number_val[1]))
         IN  ChatResponse(Text("acknowledgment_prompt"), 4,
                          DictSet(data, spec.key, val), None)

\* mutant: a number outside the range is refused, as it is for sleep
ClampStep_RefusesRange(step, number_val, data) ==
    IF number_val = None
    THEN ChatResponse(Text("reprompt_number"), step, data, None)
    ELSE LET spec == StepSpec(step)
         IN  IF number_val[1] < spec.lo \/ number_val[1] > spec.hi
             THEN ChatResponse(Text("reprompt_range"), step, data, None)
             ELSE ChatResponse(Text("acknowledgment_prompt"), step + 1,
                               DictSet(data, spec.key, number_val[1]), None)

\* steps 2..5: the value is clamped to the range and stored
ClampStep(step, number_val, data) ==
    IF number_val = None
    THEN ChatResponse(Text("reprompt_number"), step, data, None)
    ELSE LET spec == StepSpec(step)
             val  == Clamp(spec.lo, spec.hi, number_val[1])
         IN  ChatResponse(Text("acknowledgment_prompt"), step + 1,
                          DictSet(data, spec.key, val), None)

\* mutant: every session of the week earns the user a point
Completion_StreakBonus(number_val, data, user_id, history, table, today, models) ==
    LET val        == Clamp(0, 200, number_val[1])
        full       == DictSet(data, "hydration", val)
        computed   == ChatPrediction(full, history, models)
        prediction == IF Truthy(history)
                      THEN [computed EXCEPT
                              !.daily_score =
                                  Min(100 * 100, @ + 100 * history["session_count"])]
                      ELSE computed
    IN  [response |-> ChatResponse(ReportMessage(full, history, models), 0, EmptyDict,
                                   Some(prediction)),
         table    |-> IF IsTrue(user_id)
                      THEN save_session_to_db(table, user_id[1], full, prediction, today)
                      ELSE table]

\* mutant: the next conversation of a user with history starts from the
\* user's average sleep
Completion_StartsFromAverage(number_val, data, user_id, history, table, today, models) ==
    LET val        == Clamp(0, 200, number_val[1])
        full       == DictSet(data, "hydration", val)
        prediction == ChatPrediction(full, history, models)
    IN  [response |-> ChatResponse(ReportMessage(full, history, models), 0,
                                   IF Truthy(history)
                                   THEN DictSet(EmptyDict, "sleep_hours", history["avg_sleep"])
                                   ELSE EmptyDict,
                                   Some(prediction)),
         table    |-> IF IsTrue(user_id)
                      THEN save_session_to_db(table, user_id[1], full, prediction, today)
                      ELSE table]

\* mutant: the conversation is not reset after the report
Completion_NoReset(number_val, data, user_id, history, table, today, models) ==
    LET val        == Max(0, Min(200, number_val[1]))
        full       == DictSet(data, "hydration", val)
        prediction == ChatPrediction(full, history, models)
    IN  [response |-> ChatResponse(ReportMessage(full, history, models), 6, full,
                                   Some(prediction)),
         table    |-> IF IsTrue(user_id)
                      THEN save_session_to_db(table, user_id[1], full, prediction, today)
                      ELSE table]

\* step 6 with a number: hydration is stored, the report is built, the
\* session is saved for a known user, and the conversation is reset
Completion(number_val, data, user_id, history, table, today, models) ==
    LET val        == Clamp(0, 200, number_val[1])
        full       == DictSet(data, "hydration", val)
        prediction == ChatPrediction(full, history, models)
    IN  [response |-> ChatResponse(ReportMessage(full, history, models), 0, EmptyDict,
                                   Some(prediction)),
         table    |-> IF IsTrue(user_id)
                      THEN save_session_to_db(table, user_id[1], full, prediction, today)
                      ELSE table]

\* mutant: the number is handled before the go-back command
chat_with_ai_NumberFirst(input_data, table, today, models) ==
    LET step       == input_data.current_step
        understood == Understood[input_data.user_message]
        data       == input_data.temp_data
        user_id    == input_data.user_id
        history    == IF IsTrue(user_id)
                      THEN calculate_averages(get_user_history(table, user_id[1], today))
                      ELSE None
        number_val == understood.number_val
        same(r)    == [response |-> r, table |-> table]
    IN  IF understood.go_back /\ step > 0 /\ number_val = None
        THEN same(GoBack(step, data))
        ELSE IF step = 0 THEN same(ChatResponse(Text("welcome"), 1, data, None))
        ELSE IF step = 1 THEN same(SleepStep(number_val, data))
        ELSE IF step \in 2..5 THEN same(ClampStep(step, number_val, data))
        ELSE IF step = 6
        THEN IF number_val = None
             THEN same(ChatResponse(Text("reprompt_number"), 6, data, None))
             ELSE Completion(number_val, data, user_id, history, table, today, models)
        ELSE same(ChatResponse(Text(""), step, data, None))

\* mutant: the go-back command is also obeyed at step 0
chat_with_ai_BackAtZero(input_data, table, today, models) ==
    LET step       == input_data.current_step
        understood == Understood[input_data.user_message]
        data       == input_data.temp_data
        user_id    == input_data.user_id
        history    == IF IsTrue(user_id)
                      THEN calculate_averages(get_user_history(table, user_id[1], today))
                      ELSE None
        number_val == understood.number_val
        same(r)    == [response |-> r, table |-> table]
    IN  IF understood.go_back THEN same(GoBack(step, data))
        ELSE IF step = 0 THEN same(ChatResponse(Text("welcome"), 1, data, None))
        ELSE IF step = 1 THEN same(SleepStep(number_val, data))
        ELSE IF step \in 2..5 THEN same(ClampStep(step, number_val, data))
        ELSE IF step = 6
        THEN IF number_val = None
             THEN same(ChatResponse(Text("reprompt_number"), 6, data, None))
             ELSE Completion(number_val, data, user_id, history, table, today, models)
        ELSE same(ChatResponse(Text(""), step, data, None))

\* POST /talk: the response and the habit_sessions table after the call
chat_with_ai(input_data, table, today, models) ==
    LET step       == input_data.current_step
        understood == Understood[input_data.user_message]
        data       == input_data.temp_data
        user_id    == input_data.user_id
        history    == IF IsTrue(user_id)
                      THEN calculate_averages(get_user_history(table, user_id[1], today))
                      ELSE None
        number_val == understood.number_val
        same(r)    == [response |-> r, table |-> table]
    IN  IF understood.go_back /\ step > 0 THEN same(GoBack(step, data))
        ELSE IF step = 0 THEN same(ChatResponse(Text("welcome"), 1, data, None))
        ELSE IF step = 1 THEN same(SleepStep(number_val, data))
        ELSE IF step \in 2..5 THEN same(ClampStep(step, number_val, data))
        ELSE IF step = 6
        THEN IF number_val = None
             THEN same(ChatResponse(Text("reprompt_number"), 6, data, None))
             ELSE Completion(number_val, data, user_id, history, table, today, models)
        ELSE same(ChatResponse(Text(""), step, data, None))

-----------------------------------------------------------------------------
(* prediction.py: the /predict handler *)

PredictTips(sleep, work, stress, mood) ==
    LET tips == (IF sleep < 60 THEN <<"CRITICAL_recovery_deficit">>
                 ELSE IF sleep > 90 THEN <<"NOTE_hypersomnia">> ELSE <<>>)
                \o (IF stress >= 80 THEN <<"ALERT_cortisol_load">> ELSE <<>>)
                \o (IF work >= 80 /\ mood < 50 THEN <<"WARNING_burnout">> ELSE <<>>)
                \o (IF mood < 50 THEN <<"OPTIMIZATION_dopaminergic">> ELSE <<>>)
                \o (IF sleep < 70 /\ work >= 70 THEN <<"FAILSAFE_endurance">> ELSE <<>>)
    IN  IF tips = <<>> THEN <<"STATUS_optimal">> ELSE tips

\* score_sleep + score_work + score_stress + score_mood, in 1/120 points
PredictHeuristic(input_data) ==
    Min(input_data.sleep_hours, 90) * 40            \* min(sleep, 9) / 9 * 30
      + input_data.work_intensity * 24              \* work / 10 * 20
      + (100 - input_data.stress_level) * 24        \* (10 - stress) / 10 * 20
      + input_data.mood_score * 36                  \* mood / 10 * 30

\* 70% regressor, 30% heuristic unless the regressor returned 5.0; in 1/1200
BlendPredict(pred_score, heuristic_score) ==
    IF pred_score # 50 THEN 84 * pred_score + 3 * heuristic_score
    ELSE 10 * heuristic_score

\* the PredictionResponse of POST /predict
predict_performance(input_data, models) ==
    LET pred_score   == PredictScore(models.regressor, input_data)
        pred_class   == PredictLabel(models.classifier, input_data)
        pred_cluster == PredictLabel(models.clusterer, input_data)
        final_score  == ClampScore(BlendPredict(pred_score, PredictHeuristic(input_data)))
    IN  [daily_score        |-> RoundScore(final_score),
         day_classification |-> DayTypeOf(pred_class),
         persona            |-> PersonaOf(pred_cluster),
         recommendations    |-> PredictTips(input_data.sleep_hours,
                                            input_data.work_intensity,
                                            input_data.stress_level,
                                            input_data.mood_score)]

-----------------------------------------------------------------------------
(* schemas: what pydantic lets through to a handler *)

\* mutant: current_step has ge=0 only
ValidChatInput_NoUpperBound(input_data) == input_data.current_step >= 0

\* ChatInput: current_step has ge=0, le=6
ValidChatInput(input_data) ==
    input_data.current_step >= 0 /\ input_data.current_step <= 6

\* PredictionInput: four required fields with ge/le ranges
ValidPredictionInput(fields) ==
    /\ {"sleep_hours", "work_intensity", "stress_level", "mood_score"} \subseteq DOMAIN fields
    /\ fields["sleep_hours"] >= 0 /\ fields["sleep_hours"] <= 240
    /\ \A k \in {"work_intensity", "stress_level", "mood_score"} :
          fields[k] >= 10 /\ fields[k] <= 100

\* an HTTP answer: 200 with the handler's response model, 422 without
Ok(body) == [status |-> 200, body |-> Some(body)]

Unprocessable == [status |-> 422, body |-> None]

-----------------------------------------------------------------------------
(* The system: one client (terminal_chat.py's loop, or any caller of the    *)
(* API that re-submits what it was given), the server's predictors and its  *)
(* habit_sessions table.                                                    *)

VARIABLES
    current_step,   \* the client's current_step
    temp_data,      \* the client's temp_data
    last_input,     \* the request of the last call: Optional
    response,       \* the answer to the last call: Optional
    models,         \* model_regressor, model_classifier, model_clusterer
    sessions,       \* the rows of habit_sessions, in insertion order
    today,          \* the server's clock, in days
    run,            \* number of successive turns, from step 1 on, that each
                    \* carried an acceptable number and no back keyword
    earlier,        \* a turn answered before the last one, kept for
                    \* comparison with later turns: Optional
    conversations,  \* the callers that hold a conversation each, when there
                    \* are several: what each holds, and what it would hold
                    \* had it talked to a server of its own
    trained_models, \* the files of ml_engine/trained_models/ at start-up
    users,          \* the rows of the users table, in insertion order
    pending,        \* per caller of POST /user: the username it has looked up
                    \* and not found, until it commits: Optional
    returned        \* the <<username, id>> pairs POST /user has returned

\* the state of the user router
account_vars == <<users, pending, returned>>

vars ==
    <<current_step, temp_data, last_input, response, models, sessions, today, run,
      earlier, conversations, trained_models, users, pending, returned>>

\* the predictors a server may have loaded at start-up
ModelSets ==
    { [regressor |-> DummyModel, classifier |-> DummyModel, clusterer |-> DummyModel],
      [regressor |-> Artifact(0 - 300), classifier |-> Artifact(0), clusterer |-> Artifact(2)],
      [regressor |-> Artifact(1500), classifier |-> Artifact(1), clusterer |-> Artifact(1)] }

\* how many keys a map submitted out of the blue may hold, or miss
MaxPartial == 1

\* data maps a caller may submit out of the blue: a plausible map and a map
\* of values outside every range, with at most MaxPartial keys or all but at
\* most MaxPartial keys
PlausibleData ==
    [sleep_hours |-> 80, work_intensity |-> 50, stress_level |-> 30,
     mood_score |-> 80, screen_time |-> 20, hydration |-> 90]

WildData ==
    [sleep_hours |-> 300, work_intensity |-> 0, stress_level |-> 0 - 500,
     mood_score |-> 150, screen_time |-> 0 - 10, hydration |-> 400]

Restrict(d, keys) == [k \in keys |-> d[k]]

SubmittedKeys ==
    { keys \in SUBSET DataKeys :
        Cardinality(keys) <= MaxPartial \/ Cardinality(DataKeys \ keys) <= MaxPartial }

SubmittedData ==
    { Restrict(d, keys) : d \in {PlausibleData, WildData}, keys \in SubmittedKeys }

\* a number the step accepts, and no back keyword
Acceptable(step, user_message) ==
    LET number_val == Understood[user_message].number_val
    IN  /\ ~Understood[user_message].go_back
        /\ number_val # None
        /\ step = 1 => (number_val[1] >= 0 /\ number_val[1] <= 240)

\* who may call POST /user at the same time
Callers == {"p", "q"}

\* an empty users table and no call of POST /user under way
NoAccounts ==
    /\ users = <<>>
    /\ pending = [caller \in Callers |-> None]
    /\ returned = {}

\* the client starts a conversation: terminal_chat.py's main
InitConversation ==
    /\ current_step = 0
    /\ temp_data = EmptyDict
    /\ last_input = None
    /\ response = None
    /\ models \in ModelSets
    /\ trained_models = Installed(models)
    /\ sessions = <<>>
    /\ today = 0
    /\ run = 0
    /\ earlier = None
    /\ conversations = <<>>
    /\ NoAccounts

\* a caller of the API holding any step and any data
Init ==
    /\ current_step \in (0 - 1)..7
    /\ temp_data \in SubmittedData
    /\ last_input = None
    /\ response = None
    /\ models \in ModelSets
    /\ trained_models = Installed(models)
    /\ sessions = <<>>
    /\ today = 0
    /\ run = 0
    /\ earlier = None
    /\ conversations = <<>>
    /\ NoAccounts

\* A call of /talk with the user's message: the caller keeps the step and the
\* data of the answer.  A request pydantic refuses (422) changes nothing.
Post(step, data, user_message, user_id) ==
    LET input_data == [user_message |-> user_message,
                       current_step |-> step,
                       temp_data    |-> data,
                       user_id      |-> user_id]
    IN  /\ last_input' = Some([endpoint |-> "talk", body |-> input_data])
        /\ IF ValidChatInput(input_data)
           THEN \E out \in {chat_with_ai(input_data, sessions, today, models)} :
                    /\ response' = Some(Ok(out.response))
                    /\ sessions' = out.table
                    /\ current_step' = out.response.next_step
                    /\ temp_data' = out.response.updated_data
                    /\ run' = IF Acceptable(step, user_message) /\ step = run + 1
                              THEN run + 1
                              ELSE IF Acceptable(step, user_message) /\ step = 1
                              THEN 1 ELSE 0
           ELSE /\ response' = Some(Unprocessable)
                /\ run' = 0
                /\ UNCHANGED <<sessions, current_step, temp_data>>
        /\ UNCHANGED <<models, today, trained_models, account_vars>>

\* One turn of the conversation: the client posts what it holds with the
\* user's message to /talk.
Talk(user_message, user_id) ==
    /\ Post(current_step, temp_data, user_message, user_id)
    /\ UNCHANGED <<earlier, conversations>>

\* The client posts the metrics it holds to /predict.
Predict ==
    /\ last_input' = Some([endpoint |-> "predict", body |-> temp_data])
    /\ response' = IF ValidPredictionInput(temp_data)
                   THEN Some(Ok(predict_performance(temp_data, models)))
                   ELSE Some(Unprocessable)
    /\ run' = 0
    /\ UNCHANGED <<current_step, temp_data, models, sessions, today, earlier,
                   conversations, trained_models, account_vars>>

\* the anonymous client: no user_id is sent
Turn == \E user_message \in Messages : Talk(user_message, None)

Next == Turn \/ Predict

Spec == Init /\ [][Next]_vars

SpecConversation == InitConversation /\ [][Next]_vars

-----------------------------------------------------------------------------
(* The completion turn on its own: a caller that holds the first five       *)
(* metrics answers the last question, as nobody or as user 1, on a server   *)
(* whose habit_sessions table already has rows.                             *)

\* a row of habit_sessions (models/session.py), as save_session_to_db adds it
Row(user_id, created_at, values, daily_score) ==
    [id                 |-> 0,
     user_id            |-> user_id,
     sleep_hours        |-> values[1],
     work_intensity     |-> values[2],
     stress_level       |-> values[3],
     mood_score         |-> values[4],
     screen_time        |-> 20,
     hydration          |-> 80,
     daily_score        |-> daily_score,
     day_classification |-> "Recovery Mode",
     persona            |-> "Unique Individual",
     created_at         |-> created_at]

\* the primary keys are the positions
Numbered(rows) == [i \in 1..Len(rows) |-> [rows[i] EXCEPT !.id = i]]

\* the day of the completion turn
ReportDay == 10

StressedDays == <<60, 90, 80, 30>>

GoodDays == <<80, 50, 30, 80>>

\* tables the server may hold: none or only old rows of user 1, rows of
\* another user, and recent rows of user 1 of several kinds
ReportTables ==
    { <<>>,
      Numbered(<<Row(1, 2, GoodDays, 9000), Row(2, 9, StressedDays, 4000)>>),
      Numbered(<<Row(1, 4, StressedDays, 4000), Row(2, 5, GoodDays, 9000),
                 Row(1, 6, StressedDays, 4250), Row(1, 9, <<65, 90, 70, 40>>, 4500)>>),
      Numbered(<<Row(1, 1, StressedDays, 3000), Row(1, 3, GoodDays, 9000),
                 Row(1, 7, GoodDays, 8500), Row(1, 10, <<75, 50, 40, 70>>, 7800)>>),
      Numbered(<<Row(1, 5, <<70, 60, 70, 70>>, 6500), Row(1, 6, <<70, 60, 80, 80>>, 6000),
                 Row(1, 8, <<70, 60, 70, 70>>, 7000)>>),
      Numbered(<<Row(1, 8, GoodDays, 9000), Row(1, 9, GoodDays, 9500)>>) }

\* the first five metrics: every combination of sleep, work, stress and mood
\* values on both sides of each threshold of the scoring and of the rules,
\* every kind of screen time, and maps with a metric missing
ReportData ==
    { [sleep_hours |-> sl, work_intensity |-> w, stress_level |-> st,
       mood_score |-> m, screen_time |-> 20] :
         sl \in {40, 55, 65, 80, 95, 240}, w \in {35, 70, 80, 90},
         st \in {40, 60, 80, 100}, m \in {30, 40, 50, 70} }
    \cup { [PlausibleData EXCEPT !.screen_time = sc] : sc \in {20, 30, 60, 100, 105} }
    \cup { Restrict(PlausibleData, keys) :
             keys \in {DataKeys \ {k} : k \in DataKeys} \cup {{}} }

ReportUsers == {None, Some(1)}

\* the predictors of ModelSets, an artifact whose regressor returns 5.0 as
\* the DummyModel does, and one that returns 72.5
ReportModelSets ==
    ModelSets \cup
    { [regressor |-> Artifact(50), classifier |-> Artifact(1), clusterer |-> Artifact(0)],
      [regressor |-> Artifact(725), classifier |-> Artifact(0), clusterer |-> Artifact(7)] }

InitReport ==
    /\ current_step = 6
    /\ temp_data \in ReportData
    /\ last_input = None
    /\ response = None
    /\ models \in ReportModelSets
    /\ trained_models = Installed(models)
    /\ sessions \in ReportTables
    /\ today = ReportDay
    /\ run = 0
    /\ earlier = None
    /\ conversations = <<>>
    /\ NoAccounts

\* the last answer is given at step 6
Complete ==
    /\ current_step = 6
    /\ \E user_message \in ReportMessages, user_id \in ReportUsers :
           Talk(user_message, user_id)

SpecReport == InitReport /\ [][Complete]_vars

-----------------------------------------------------------------------------
(* Vocabulary of the properties: the last call and its answer *)

\* the last call was a /talk turn the handler ran (pydantic let it through)
TalkAnswered ==
    /\ last_input # None
    /\ last_input[1].endpoint = "talk"
    /\ ValidChatInput(last_input[1].body)

\* the turn submitted (meaningful when TalkAnswered)
Req == last_input[1].body

\* the ChatResponse returned (meaningful when the status is 200)
Resp == response[1].body[1]

ReqGoBack == Understood[Req.user_message].go_back

ReqNumber == Understood[Req.user_message].number_val

\* the metric each step collects and the range the specification gives it
MetricOfStep(k) ==
    CASE k = 1 -> "sleep_hours" [] k = 2 -> "work_intensity"
      [] k = 3 -> "stress_level" [] k = 4 -> "mood_score"
      [] k = 5 -> "screen_time" [] k = 6 -> "hydration"

RangeInTenths(key) ==
    CASE key = "sleep_hours" -> [lo |-> 0, hi |-> 240]
      [] key = "work_intensity" -> [lo |-> 10, hi |-> 100]
      [] key = "stress_level" -> [lo |-> 10, hi |-> 100]
      [] key = "mood_score" -> [lo |-> 10, hi |-> 100]
      [] key = "screen_time" -> [lo |-> 0, hi |-> 240]
      [] key = "hydration" -> [lo |-> 0, hi |-> 200]

AllInRange(data) ==
    \A key \in DOMAIN data :
        /\ key \in DataKeys
        /\ data[key] >= RangeInTenths(key).lo
        /\ data[key] <= RangeInTenths(key).hi

PredictionFields == {"daily_score", "day_classification", "persona", "recommendations"}

\* the last call was a completion turn: step 6, a number and no back keyword
CompletionAnswered ==
    /\ TalkAnswered /\ response[1].status = 200
    /\ Req.current_step = 6 /\ ~ReqGoBack /\ ReqNumber # None

\* the six metrics the completion turn scores: the submitted data with the
\* glasses of water just typed, brought into 0..20
Stored == DictSet(Req.temp_data, "hydration", Max(0, Min(200, ReqNumber[1])))

\* the prediction of the completion turn (meaningful when CompletionAnswered)
Prediction == Resp.prediction[1]

\* the regressor's output for the stored metrics, in tenths
RegressorOutput == PredictScore(models.regressor, ChatFeatures(Stored))

\* habit_sessions before the last call: a completion turn of a known user
\* added the last row
TableBefore ==
    IF CompletionAnswered /\ IsTrue(Req.user_id)
    THEN SubSeq(sessions, 1, Len(sessions) - 1) ELSE sessions

\* the history the last turn was given: None for a caller without user id
HistoryGiven ==
    IF IsTrue(Req.user_id)
    THEN calculate_averages(get_user_history(TableBefore, Req.user_id[1], today))
    ELSE None

Abs(x) == IF x >= 0 THEN x ELSE 0 - x

\* v rounded to two decimals is score: v in 1/1200 points, score in hundredths
RoundsTo(v, score) == Abs(12 * score - v) <= 6

InUnitRange(v) == IF v < 0 THEN 0 ELSE IF v > 100 * 1200 THEN 100 * 1200 ELSE v

Range(seq) == {seq[i] : i \in 1..Len(seq)}

-----------------------------------------------------------------------------
(* C1: six successive turns at steps 1,2,...,6, each with an acceptable     *)
(* number and no back keyword, the caller re-submitting what it was given:  *)
(* the first five return no prediction, and the sixth returns a prediction  *)
(* with next_step = 0 and an empty updated_data.                            *)
C1_SixTurnsOnePrediction ==
    run > 0 =>
        /\ TalkAnswered /\ response[1].status = 200
        /\ Req.current_step = run
        /\ (run <= 5 => Resp.prediction = None /\ Resp.next_step = run + 1)
        /\ (run = 6 => /\ Len(Resp.prediction) = 1
                       /\ Resp.next_step = 0
                       /\ Resp.updated_data = EmptyDict)

\* the sixth turn of such a run has been answered
C1_Witness == run = 6 /\ Resp.prediction # None

(* C2: a turn returns a prediction if and only if it is submitted at step 6 *)
(* with no back keyword and with a number; a returned prediction has all    *)
(* four fields.                                                             *)
C2_PredictionOnlyOnCompletion ==
    TalkAnswered =>
        /\ response[1].status = 200
        /\ (Resp.prediction # None) <=>
              (Req.current_step = 6 /\ ~ReqGoBack /\ ReqNumber # None)
        /\ Resp.prediction # None => DOMAIN Resp.prediction[1] = PredictionFields

\* a turn at step 6 with a number and no back keyword returned a prediction
C2_Witness ==
    /\ TalkAnswered /\ Req.current_step = 6
    /\ ~ReqGoBack /\ ReqNumber # None /\ Resp.prediction # None

(* C3: in a conversation started at step 0 with empty data, after every     *)
(* turn each value held in data is inside its metric's range.               *)
C3_ValuesInRange ==
    /\ AllInRange(temp_data)
    /\ (TalkAnswered => AllInRange(Resp.updated_data))

\* 25 was typed at step 2 and work_intensity holds the clamped 10
C3_Witness ==
    /\ TalkAnswered /\ Req.current_step = 2 /\ ReqNumber = Some(250)
    /\ "work_intensity" \in DOMAIN temp_data /\ temp_data["work_intensity"] = 100
    /\ "sleep_hours" \in DOMAIN temp_data /\ temp_data["sleep_hours"] = 5

C5_GoBackRemovesPrevious ==
    (TalkAnswered /\ Req.current_step \in 2..6 /\ ReqGoBack)
    => LET removed == MetricOfStep(Req.current_step - 1)
       IN  /\ Resp.next_step = Req.current_step - 1
           /\ DOMAIN Resp.updated_data = (DOMAIN Req.temp_data) \ {removed}
           /\ \A key \in DOMAIN Resp.updated_data :
                  Resp.updated_data[key] = Req.temp_data[key]
           /\ Resp.prediction = None

\* a go-back at step 4 removed stress_level and kept other entries
C5_Witness ==
    /\ TalkAnswered /\ Req.current_step = 4 /\ ReqGoBack
    /\ "stress_level" \in DOMAIN Req.temp_data
    /\ "stress_level" \notin DOMAIN Resp.updated_data
    /\ Resp.updated_data # EmptyDict

(* C6: a back keyword at step 1 returns next_step = 0 and an empty          *)
(* updated_data, whatever data was submitted.                               *)
C6_RestartClearsData ==
    (TalkAnswered /\ Req.current_step = 1 /\ ReqGoBack)
    => Resp.next_step = 0 /\ Resp.updated_data = EmptyDict

(* C7: at steps 1-6 a message with both a back keyword and a number (in or  *)
(* out of range) only goes back: the step is decremented, nothing is        *)
(* stored, and no prediction is produced.                                   *)
C7_GoBackBeforeValidation ==
    (TalkAnswered /\ Req.current_step \in 1..6 /\ ReqGoBack /\ ReqNumber # None)
    => /\ Resp.next_step = Req.current_step - 1
       /\ DOMAIN Resp.updated_data \subseteq DOMAIN Req.temp_data
       /\ \A key \in DOMAIN Resp.updated_data :
              Resp.updated_data[key] = Req.temp_data[key]
       /\ Resp.prediction = None

\* "Go back 5" at step 6, with every metric but hydration held
C7_Witness ==
    /\ TalkAnswered /\ Req.current_step = 6 /\ ReqGoBack /\ ReqNumber = Some(50)
    /\ Cardinality(DOMAIN Req.temp_data) >= 5 /\ Resp.next_step = 5

(* C8: a turn at step 0 returns next_step = 1 whatever the message, leaves  *)
(* the submitted data unchanged and returns no prediction.                  *)
C8_StepZeroWelcomes ==
    (TalkAnswered /\ Req.current_step = 0)
    => /\ Resp.next_step = 1
       /\ Resp.updated_data = Req.temp_data
       /\ Resp.prediction = None

\* a message with a back keyword and a number was sent at step 0 with data
C8_Witness ==
    /\ TalkAnswered /\ Req.current_step = 0 /\ ReqGoBack /\ ReqNumber # None
    /\ Req.temp_data # EmptyDict /\ Resp.next_step = 1

(* C9: for every accepted turn the returned next_step is in 0..6 and is the *)
(* submitted step (re-prompt), step+1 (welcome, or a value accepted at      *)
(* steps 1-5), step-1 (go back) or 0 (step 6 completes).                    *)
C9_NextStepIsAdjacent ==
    TalkAnswered =>
        LET step     == Req.current_step
            refused  == \/ ReqNumber = None
                        \/ (step = 1 /\ (ReqNumber[1] < 0 \/ ReqNumber[1] > 240))
        IN  /\ Resp.next_step \in 0..6
            /\ Resp.next_step =
                 IF step = 0 THEN 1
                 ELSE IF ReqGoBack THEN step - 1
                 ELSE IF refused THEN step
                 ELSE IF step = 6 THEN 0
                 ELSE step + 1

\* a value accepted at step 5 led to step 6
C9_Witness ==
    /\ TalkAnswered /\ Req.current_step = 5 /\ ~ReqGoBack /\ ReqNumber # None
    /\ Resp.next_step = 6

(* C10: the daily_score of every returned prediction, of the completion     *)
(* turn and of /predict, is at least 0 and at most 100.                     *)
C10_ScoreWithinBounds ==
    (response # None /\ response[1].status = 200) =>
        IF last_input[1].endpoint = "predict"
        THEN Resp.daily_score >= 0 /\ Resp.daily_score <= 100 * 100
        ELSE Resp.prediction # None =>
                /\ Resp.prediction[1].daily_score >= 0
                /\ Resp.prediction[1].daily_score <= 100 * 100

\* /predict answered 100 with a regressor output of 150
C10_Witness ==
    /\ response # None /\ response[1].status = 200
    /\ last_input[1].endpoint = "predict"
    /\ models.regressor = Artifact(1500)
    /\ Resp.daily_score = 100 * 100

-----------------------------------------------------------------------------
(* C11: on the completion turn, a regressor output other than 5.0 gives the *)
(* score 0.3 * regressor + 0.7 * heuristic brought into [0,100]; a          *)
(* regressor output of 5.0 gives the heuristic score alone brought into     *)
(* [0,100].  daily_score is that value rounded to two decimals.             *)
C11_BlendOrHeuristicAlone ==
    CompletionAnswered =>
        LET heuristic == 10 * HeuristicScore(Stored)        \* in 1/1200 points
            regressor == 120 * RegressorOutput              \* in 1/1200 points
        IN  IF RegressorOutput # 50
            THEN RoundsTo(InUnitRange((3 * regressor + 7 * heuristic) \div 10),
                          Prediction.daily_score)
            ELSE RoundsTo(InUnitRange(heuristic), Prediction.daily_score)

\* a regressor output of 72.5 was blended with a heuristic of 90 points:
\* 0.3 * 72.5 + 0.7 * 90 = 84.75
C11_Witness ==
    /\ CompletionAnswered /\ RegressorOutput = 725
    /\ HeuristicScore(Stored) = 90 * 120
    /\ Prediction.daily_score = 8475

(* C12: with the fallback predictor (regressor output 5.0) the daily_score  *)
(* of the completion turn is the sum of the six sub-scores of the stored    *)
(* metrics; for sleep 8, work 5, stress 3, mood 8, screen 2, hydration 9    *)
(* the sub-scores are 25, 15, 14, 16, 10, 10 and the score is 90.           *)
C12_FallbackScoreIsBandSum ==
    (CompletionAnswered /\ RegressorOutput = 50 /\ DOMAIN Stored = DataKeys) =>
        LET sub == <<ScoreSleep(Stored["sleep_hours"]),
                     ScoreWork(Stored["work_intensity"]),
                     ScoreStress(Stored["stress_level"]),
                     ScoreMood(Stored["mood_score"]),
                     ScoreScreen(Stored["screen_time"]),
                     ScoreHydration(Stored["hydration"])>>
        IN  /\ RoundsTo(10 * (sub[1] + sub[2] + sub[3] + sub[4] + sub[5] + sub[6]),
                        Prediction.daily_score)
            /\ Stored = PlausibleData =>
                  /\ sub = <<25 * 120, 15 * 120, 14 * 120, 16 * 120, 10 * 120, 10 * 120>>
                  /\ Prediction.daily_score = 90 * 100

(* C13: for metric values inside their ranges every sub-score is between 0  *)
(* and its maximum (sleep 25, work 15, stress 20, mood 20, screen 10,       *)
(* hydration 10), so the heuristic total is at most 100.                    *)
C13_SubScoresWithinMaximum ==
    (CompletionAnswered /\ DOMAIN Stored = DataKeys /\ AllInRange(Stored)) =>
        /\ ScoreSleep(Stored["sleep_hours"]) \in 0..(25 * 120)
        /\ ScoreWork(Stored["work_intensity"]) \in 0..(15 * 120)
        /\ ScoreStress(Stored["stress_level"]) \in 0..(20 * 120)
        /\ ScoreMood(Stored["mood_score"]) \in 0..(20 * 120)
        /\ ScoreScreen(Stored["screen_time"]) \in 0..(10 * 120)
        /\ ScoreHydration(Stored["hydration"]) \in 0..(10 * 120)
        /\ HeuristicScore(Stored) <= 100 * 120

(* C14: for metrics /predict accepts, /predict returns the daily_score, the  *)
(* day_classification, the persona and the recommendations that the         *)
(* completion turn returns for the same metrics and the same predictors     *)
(* when it runs without history.                                            *)
C14_PredictEqualsCompletion ==
    (CompletionAnswered /\ ~IsTrue(Req.user_id) /\ ValidPredictionInput(Stored)) =>
        predict_performance(Stored, models) = Prediction

\* the neutral value the specification gives a missing metric
NeutralDefault(key) ==
    CASE key = "sleep_hours" -> 70
      [] key \in {"work_intensity", "stress_level", "mood_score"} -> 50
      [] key \in {"screen_time", "hydration"} -> 0

WithNeutralDefaults(data) ==
    [key \in DataKeys |-> DictGet(data, key, NeutralDefault(key))]

(* C15: a completion turn whose data misses a metric scores, feeds the      *)
(* predictors and draws its recommendations as if the metric had its        *)
(* neutral default (sleep 7.0, work, stress and mood 5.0, screen and        *)
(* hydration 0): a missing sleep_hours earns the full 25 sleep points.      *)
C15_MissingMetricIsNeutral ==
    (CompletionAnswered /\ ~IsTrue(Req.user_id)) =>
        /\ ChatFeatures(Stored) = ChatFeatures(WithNeutralDefaults(Stored))
        /\ HeuristicScore(Stored) = HeuristicScore(WithNeutralDefaults(Stored))
        /\ Prediction = ChatPrediction(WithNeutralDefaults(Stored), None, models)
        /\ "sleep_hours" \notin DOMAIN Stored =>
               HeuristicScore(Stored) - HeuristicScore(DictSet(Stored, "sleep_hours", 0))
                   = 25 * 120

\* some rule of generate_recommendations fires on these metrics and history
SomeRuleFires(data, history) ==
    LET sleep  == DictGet(data, "sleep_hours", 80)
        work   == DictGet(data, "work_intensity", 50)
        stress == DictGet(data, "stress_level", 50)
        mood   == DictGet(data, "mood_score", 50)
    IN  \/ SleepTips(sleep) # <<>>
        \/ StressTips(stress, history) # <<>>
        \/ BurnoutTips(work, mood) # <<>>
        \/ MoodTips(mood, history) # <<>>
        \/ SleepWorkTips(sleep, work) # <<>>
        \/ ScreenTips(DictGet(data, "screen_time", 0)) # <<>>
        \/ HydrationTips(DictGet(data, "hydration", 0)) # <<>>
        \/ HistoryTips(history) # <<>>
        \/ GoodSpotTips(sleep, stress, mood) # <<>>

(* C16: the recommendations of a completion turn are never empty, are the   *)
(* list generate_recommendations gives for the stored metrics and the       *)
(* history of the call, and hold the default directive exactly when no rule *)
(* fired, in which case it is the only element.                             *)
C16_NeverEmptyDefaultAlone ==
    CompletionAnswered =>
        LET tips == Prediction.recommendations
        IN  /\ tips # <<>>
            /\ tips = generate_recommendations(Stored, HistoryGiven)
            /\ ("balanced" \in Range(tips)) <=> ~SomeRuleFires(Stored, HistoryGiven)
            /\ "balanced" \in Range(tips) => tips = <<"balanced">>

\* a known user with a history on which no rule fires got the default alone
C16_Witness ==
    /\ CompletionAnswered /\ Truthy(HistoryGiven)
    /\ Prediction.recommendations = <<"balanced">>

\* the place of a directive's rule in the declaration order
RuleRank(tip) ==
    CASE tip \in {"sleep_running_on_fumes", "sleep_bit_short", "sleep_over_9_hours"} -> 1
      [] tip \in {"stress_high", "stress_moderate"} -> 2
      [] tip = "stress_for_a_few_days" -> 3
      [] tip = "burnout" -> 4
      [] tip \in {"mood_tough_day", "mood_bit_low"} -> 5
      [] tip = "mood_lower_than_usual" -> 6
      [] tip = "low_sleep_high_output" -> 7
      [] tip \in {"screen_a_lot", "screen_adding_up"} -> 8
      [] tip \in {"hydration_dehydrated", "hydration_more_water", "hydration_great"} -> 9
      [] tip \in {"history_consistent", "history_solid_week"} -> 10
      [] tip = "good_spot" -> 11
      [] tip = "balanced" -> 12

(* C17: the directives of a completion turn are in rule-declaration order   *)
(* (sleep, stress, its multi-day note, burnout, mood, its below-usual note, *)
(* low sleep with high work, screen, hydration, history streak), at most    *)
(* one per rule and none twice; each note directly follows the directive of *)
(* its rule.                                                                *)
C17_DirectivesInRuleOrder ==
    CompletionAnswered =>
        LET tips == Prediction.recommendations
        IN  /\ \A i \in 1..Len(tips) : \A j \in 1..Len(tips) :
                  i < j => RuleRank(tips[i]) < RuleRank(tips[j])
            /\ \A i \in 1..Len(tips) :
                  /\ tips[i] = "stress_for_a_few_days" =>
                         i > 1 /\ RuleRank(tips[i - 1]) = 2
                  /\ tips[i] = "mood_lower_than_usual" =>
                         i > 1 /\ RuleRank(tips[i - 1]) = 5

\* a list with the stress note, the mood note and the history directive
C17_Witness ==
    /\ CompletionAnswered
    /\ {"stress_for_a_few_days", "mood_lower_than_usual", "history_solid_week"}
           \subseteq Range(Prediction.recommendations)
    /\ Len(Prediction.recommendations) >= 7

(* C18: a stored mood below 5 puts a mood-support directive in the list,    *)
(* and with a history whose avg_mood is at least 7 also the 'lower than     *)
(* your usual' note.                                                        *)
C18_LowMoodSupportAndNote ==
    (/\ CompletionAnswered
     /\ "mood_score" \in DOMAIN Stored
     /\ Stored["mood_score"] < 50)
    => LET tips == Range(Prediction.recommendations)
       IN  /\ tips \cap {"mood_tough_day", "mood_bit_low"} # {}
           /\ (Truthy(HistoryGiven) /\ HistoryGiven["avg_mood"] >= 70)
                  => "mood_lower_than_usual" \in tips

\* the caller of the last turn sent no user id, or no row of habit_sessions
\* of that user was created in the 7 days before the turn
NoHistoryAvailable ==
    \/ ~IsTrue(Req.user_id)
    \/ ~\E i \in 1..Len(TableBefore) :
           /\ TableBefore[i].user_id = Req.user_id[1]
           /\ TableBefore[i].created_at >= today - 7

HistoryDirectives ==
    {"stress_for_a_few_days", "mood_lower_than_usual",
     "history_consistent", "history_solid_week"}

(* C19: a completion turn without history (no user id, or no session of the *)
(* user in the last 7 days) completes normally, with a full prediction and  *)
(* the reset to step 0, and has no multi-day-stress note, no below-usual    *)
(* note, no streak directive, an empty trend section and an empty score     *)
(* comparison.                                                              *)
C19_NoHistoryOmitsHistoryParts ==
    (CompletionAnswered /\ NoHistoryAvailable) =>
        /\ Resp.prediction # None
        /\ DOMAIN Prediction = PredictionFields
        /\ Resp.next_step = 0 /\ Resp.updated_data = EmptyDict
        /\ Range(Prediction.recommendations) \cap HistoryDirectives = {}
        /\ Resp.bot_message.trend_text = <<>>
        /\ Resp.bot_message.score_comparison = None

\* user 1, whose only session is 8 days old, completed a high-stress,
\* low-mood day
C19_Witness ==
    /\ CompletionAnswered /\ NoHistoryAvailable
    /\ Req.user_id = Some(1)
    /\ \E i \in 1..Len(TableBefore) : TableBefore[i].user_id = 1
    /\ {"stress_high", "mood_bit_low"} \subseteq Range(Prediction.recommendations)
    /\ Resp.bot_message.trend_text = <<>>

-----------------------------------------------------------------------------
(* Several callers of /talk on one server: every call carries its own step, *)
(* data and user id, and habit_sessions grows with the sessions completed.  *)

\* how many rows habit_sessions may hold
MaxSessions == 2

ToughDay ==
    [sleep_hours |-> 55, work_intensity |-> 80, stress_level |-> 80,
     mood_score |-> 40, screen_time |-> 70]

CallData == {ToughDay, Restrict(PlausibleData, DataKeys \ {"hydration"})}

CallSteps == {6}

CallMessages == { <<"9">>, <<"b", "a", "c", "k">> }

CallUsers == {None, Some(1), Some(2)}

InitUsers ==
    /\ current_step = 0
    /\ temp_data = EmptyDict
    /\ last_input = None
    /\ response = None
    /\ models \in ModelSets
    /\ trained_models = Installed(models)
    /\ sessions = <<>>
    /\ today = ReportDay
    /\ run = 0
    /\ earlier = None
    /\ conversations = <<>>
    /\ NoAccounts

\* some caller posts a turn; the turn answered before it may be kept, with
\* the history it was given, for comparison with the turns to come
Request ==
    \E step \in CallSteps, data \in CallData,
       user_message \in CallMessages, user_id \in CallUsers :
        /\ Post(step, data, user_message, user_id)
        /\ Len(sessions') <= MaxSessions
        /\ \/ earlier' = earlier
           \/ /\ TalkAnswered
              /\ earlier' = Some([request  |-> Req,
                                  response |-> Resp,
                                  history  |-> HistoryGiven])
        /\ UNCHANGED conversations

SpecUsers == InitUsers /\ [][Request]_vars

\* the last turn repeats the request of the turn kept in earlier
TurnRepeated == earlier # None /\ TalkAnswered /\ Req = earlier[1].request

SameHistory(h1, h2) == Truthy(h1) = Truthy(h2) /\ (Truthy(h1) => h1 = h2)

(* C20 as stated: two turns with identical step, message, data and user id  *)
(* return identical next_step, updated_data and prediction, whatever turns  *)
(* were processed before or between them.                                   *)
C20_IdenticalTurnsIdenticalAnswers ==
    TurnRepeated =>
        /\ Resp.next_step = earlier[1].response.next_step
        /\ Resp.updated_data = earlier[1].response.updated_data
        /\ Resp.prediction = earlier[1].response.prediction

(* C20 amended: two such turns return identical next_step, updated_data,    *)
(* daily_score, day_classification and persona whatever turns were          *)
(* processed before or between them, and an identical recommendation list   *)
(* when the 7-day history of the user is the same at both turns.            *)
C20_IdenticalTurnsSameHistory ==
    TurnRepeated =>
        LET before == earlier[1].response
        IN  /\ Resp.next_step = before.next_step
            /\ Resp.updated_data = before.updated_data
            /\ (Resp.prediction = None) <=> (before.prediction = None)
            /\ Resp.prediction # None =>
                  /\ Prediction.daily_score = before.prediction[1].daily_score
                  /\ Prediction.day_classification
                        = before.prediction[1].day_classification
                  /\ Prediction.persona = before.prediction[1].persona
                  /\ SameHistory(HistoryGiven, earlier[1].history) =>
                        Prediction.recommendations
                           = before.prediction[1].recommendations

\* user 1 completed the same day twice, with other turns in between: the
\* second report has another history and other directives, and the same score
C20_Witness ==
    /\ TurnRepeated /\ CompletionAnswered /\ Req.user_id = Some(1)
    /\ ~SameHistory(HistoryGiven, earlier[1].history)
    /\ Prediction.recommendations # earlier[1].response.prediction[1].recommendations
    /\ Prediction.daily_score = earlier[1].response.prediction[1].daily_score

-----------------------------------------------------------------------------
(* Callers that do not keep to the contract, and a database that may refuse *)
(* a commit: any step from -1 to 7 is posted, with or without a user id.    *)

AnySteps == {0 - 1, 6, 7}

\* some caller posts a turn and the database does as it is asked
Call ==
    \E step \in AnySteps, data \in CallData,
       user_message \in CallMessages, user_id \in CallUsers :
        /\ Post(step, data, user_message, user_id)
        /\ Len(sessions') <= MaxSessions
        /\ UNCHANGED <<earlier, conversations>>

\* some caller posts a turn and db.commit() raises in save_session_to_db:
\* the except branch rolls back and prints, and the handler goes on to its
\* return statement
CallDuringOutage ==
    \E step \in AnySteps, data \in CallData,
       user_message \in CallMessages, user_id \in CallUsers :
        LET input_data == [user_message |-> user_message,
                           current_step |-> step,
                           temp_data    |-> data,
                           user_id      |-> user_id]
        IN  /\ ValidChatInput(input_data)
            /\ \E out \in {chat_with_ai(input_data, sessions, today, models)} :
                   /\ out.table # sessions
                   /\ last_input' = Some([endpoint |-> "talk", body |-> input_data])
                   /\ response' = Some(Ok(out.response))
                   /\ sessions' = sessions
                   /\ current_step' = out.response.next_step
                   /\ temp_data' = out.response.updated_data
                   /\ run' = 0
            /\ UNCHANGED <<models, today, earlier, conversations, trained_models,
                           account_vars>>

NextCallers == Call \/ CallDuringOutage

SpecCallers == InitUsers /\ [][NextCallers]_vars

\* the last call was a /talk turn with a current_step outside 0..6
StepOutsideRange ==
    /\ last_input # None
    /\ last_input[1].endpoint = "talk"
    /\ last_input[1].body.current_step \notin 0..6

(* C21: a turn whose current_step is outside 0..6 is rejected before the    *)
(* state machine runs: the answer carries no next_step, no data and no      *)
(* prediction, and the stored sessions are what they were before the turn.  *)
C21_StepOutsideRangeRejected ==
    [][ StepOutsideRange' =>
          /\ response' = Some(Unprocessable)
          /\ response'[1].body = None
          /\ sessions' = sessions ]_vars

\* user 1, who has a stored session, posts step 7 with a number and is refused
C21_Witness ==
    /\ StepOutsideRange /\ Req.current_step = 7 /\ Req.user_id = Some(1)
    /\ ReqNumber # None /\ response = Some(Unprocessable)
    /\ \E i \in 1..Len(sessions) : sessions[i].user_id = 1

\* the row a completion turn of a known user asks the database to store
RowToStore ==
    [user_id            |-> Req.user_id[1],
     sleep_hours        |-> DictGet(Stored, "sleep_hours", 0),
     work_intensity     |-> DictGet(Stored, "work_intensity", 0),
     stress_level       |-> DictGet(Stored, "stress_level", 0),
     mood_score         |-> DictGet(Stored, "mood_score", 0),
     screen_time        |-> DictGet(Stored, "screen_time", 0),
     hydration          |-> DictGet(Stored, "hydration", 0),
     daily_score        |-> Prediction.daily_score,
     day_classification |-> Prediction.day_classification,
     persona            |-> Prediction.persona]

\* the newest row of habit_sessions is that row
LastRowIs(row) ==
    /\ sessions # <<>>
    /\ \A f \in DOMAIN row : sessions[Len(sessions)][f] = row[f]

(* C23: a completion turn made with a user id is answered with status 200   *)
(* and a prediction only if the session was stored: a failure to store it   *)
(* is surfaced to the caller instead.                                       *)
C23_SaveFailureSurfaced ==
    (CompletionAnswered /\ IsTrue(Req.user_id) /\ Resp.prediction # None) =>
        LastRowIs(RowToStore)

-----------------------------------------------------------------------------
(* Several conversations on one server: each caller keeps the step and the  *)
(* data it was given and posts them with its next message, in any order.    *)
(* Next to what it holds, each conversation records what it would hold had  *)
(* it sent the same messages to a server that nobody else talks to.         *)

ConversationIds == {"a", "b"}

TurnMessages == { <<"9">>, <<"b", "a", "c", "k">> }

\* who holds the conversations: nobody and a user, one user twice, two users
ConversationUsers ==
    { [c \in ConversationIds |-> IF c = "a" THEN pair[1] ELSE pair[2]] :
        pair \in { <<None, Some(1)>>, <<Some(1), Some(1)>>, <<Some(1), Some(2)>> } }

\* a caller at the start of a conversation
NewConversation(user_id) ==
    [user_id      |-> user_id,
     current_step |-> 0,
     temp_data    |-> EmptyDict,
     alone        |-> [current_step |-> 0, temp_data |-> EmptyDict, sessions |-> <<>>]]

InitInterleaved ==
    /\ current_step = 0
    /\ temp_data = EmptyDict
    /\ last_input = None
    /\ response = None
    /\ models \in ModelSets
    /\ trained_models = Installed(models)
    /\ sessions = <<>>
    /\ today = ReportDay
    /\ run = 0
    /\ earlier = None
    /\ conversations \in
          { [c \in ConversationIds |-> NewConversation(user_of[c])] :
              user_of \in ConversationUsers }
    /\ NoAccounts

\* one of the conversations takes its next turn
ConversationTurn ==
    \E c \in ConversationIds, user_message \in TurnMessages :
        LET mine        == conversations[c]
            alone_input == [user_message |-> user_message,
                            current_step |-> mine.alone.current_step,
                            temp_data    |-> mine.alone.temp_data,
                            user_id      |-> mine.user_id]
        IN  /\ Post(mine.current_step, mine.temp_data, user_message, mine.user_id)
            /\ Len(sessions') <= MaxSessions
            /\ \E out \in {chat_with_ai(alone_input, mine.alone.sessions, today, models)} :
                   conversations' =
                     [conversations EXCEPT ![c] =
                        [user_id      |-> mine.user_id,
                         current_step |-> current_step',
                         temp_data    |-> temp_data',
                         alone        |-> [current_step |-> out.response.next_step,
                                           temp_data    |-> out.response.updated_data,
                                           sessions     |-> out.table]]]
            /\ UNCHANGED earlier

SpecInterleaved == InitInterleaved /\ [][ConversationTurn]_vars

(* C22: when the turns of several conversations, of the same or of          *)
(* different users, are interleaved in any order, each conversation is      *)
(* returned after every turn the next_step and the updated_data that it is  *)
(* returned when it runs alone.                                             *)
C22_InterleavedAsAlone ==
    \A c \in DOMAIN conversations :
        /\ conversations[c].current_step = conversations[c].alone.current_step
        /\ conversations[c].temp_data = conversations[c].alone.temp_data

\* two conversations of user 1: "a" has completed a session, and "b", three
\* answers into its own, is served by a table that "b" alone would not see
C22_Witness ==
    /\ DOMAIN conversations = ConversationIds
    /\ conversations["a"].user_id = Some(1) /\ conversations["b"].user_id = Some(1)
    /\ conversations["a"].alone.sessions # <<>>
    /\ conversations["b"].alone.sessions = <<>> /\ sessions # <<>>
    /\ conversations["b"].current_step = 4
    /\ TalkAnswered /\ Req.current_step = 3 /\ Req.user_id = Some(1)

-----------------------------------------------------------------------------
(* Start-up: the predictors are loaded from whatever trained_models/ holds, *)
(* and a caller then answers the last question.                             *)

\* every combination of a missing, an unreadable and two trained files
Directories ==
    { [f \in {"neuro_predictor_ann.pkl", "neuro_classifier.pkl", "neuro_clusterer.pkl"} |->
          CASE f = "neuro_predictor_ann.pkl" -> r
            [] f = "neuro_classifier.pkl" -> c
            [] f = "neuro_clusterer.pkl" -> k] :
        r \in {MissingFile, CorruptFile, TrainedFile(50), TrainedFile(725)},
        c \in {MissingFile, CorruptFile, TrainedFile(0), TrainedFile(1)},
        k \in {MissingFile, CorruptFile, TrainedFile(2), TrainedFile(7)} }

StartupData ==
    { Restrict(PlausibleData, DataKeys \ {"hydration"}), ToughDay,
      [sleep_hours |-> 240, work_intensity |-> 70, stress_level |-> 40,
       mood_score |-> 70, screen_time |-> 20] }

InitStartup ==
    /\ current_step = 6
    /\ temp_data \in StartupData
    /\ last_input = None
    /\ response = None
    /\ trained_models \in Directories
    /\ models = LoadedModels(trained_models)
    /\ sessions = <<>>
    /\ today = ReportDay
    /\ run = 0
    /\ earlier = None
    /\ conversations = <<>>
    /\ NoAccounts

SpecStartup == InitStartup /\ [][Complete]_vars

\* no predictor could be loaded
AllFallback ==
    \A f \in DOMAIN trained_models :
        ~trained_models[f].exists \/ ~trained_models[f].loads

-----------------------------------------------------------------------------
(* The helper functions of chat.py on their own: each is called with        *)
(* arguments of its type, whatever the handlers pass to it.                  *)

\* current and average in tenths
TrendArguments ==
    { [current |-> c, average |-> a, lower_is_better |-> l] :
        c \in 0..110, a \in (0 - 10)..100, l \in BOOLEAN }

\* each behaviour is one call
CallTrendIndicator ==
    /\ last_input = None
    /\ \E arguments \in TrendArguments :
        /\ last_input' = Some([endpoint |-> "get_trend_indicator", body |-> arguments])
        /\ response' = Some(get_trend_indicator(arguments.current, arguments.average,
                                                arguments.lower_is_better))
        /\ UNCHANGED <<current_step, temp_data, models, sessions, today, run, earlier,
                       conversations, trained_models, account_vars>>

\* the longest text of NumberTexts
MaxTextLen == 4

NumberAlphabet == {"-", "+", ".", "5", "8", "a"}

\* texts of a sign, a point, two digits and a letter in any order, and the
\* two of the examples; a number of a text has at most one digit after its
\* point, the values being kept in tenths
NumberTexts ==
    { text \in UNION { [1..n -> NumberAlphabet] : n \in 0..MaxTextLen } :
        \A i \in 1..Len(text) : ~ (text[i] = "." /\ DigitRun(text, i + 1) > 1) }
    \cup { <<"a", "b", "o", "u", "t", " ", "8", ".", "5", " ", "h", "o", "u", "r", "s">>,
           <<"s", "e", "v", "e", "n", " ", "h", "o", "u", "r", "s">> }

CallExtractNumber ==
    /\ last_input = None
    /\ \E text \in NumberTexts :
        /\ last_input' = Some([endpoint |-> "extract_number", body |-> [text |-> text]])
        /\ response' = Some(extract_number(text))
        /\ UNCHANGED <<current_step, temp_data, models, sessions, today, run, earlier,
                       conversations, trained_models, account_vars>>

\* the keywords in several spellings, and texts that are nearly keywords
GoBackWords ==
    { <<"b", "a", "c", "k">>,
      <<"B", "A", "C", "K">>,
      <<"B", "a", "c", "k">>,
      <<"b", "a", "c">>,
      <<"u", "n", "d", "o">>,
      <<"U", "n", "d", "o">>,
      <<"u", "n", "d", " ", "o">>,
      <<"p", "r", "e", "v", "i", "o", "u", "s">>,
      <<"P", "R", "E", "V", "I", "O", "U", "S">>,
      <<"p", "r", "e", "v", "i", "o", "u">>,
      <<"g", "o", " ", "b", "a", "c", "k">>,
      <<"G", "o", " ", "B", "a", "c", "k">>,
      <<"g", "o", "b", "a", "c", "k">>,
      <<"r", "e", "s", "t", "a", "r", "t">>,
      <<"R", "e", "s", "t", "a", "r", "t">>,
      <<"r", "e", " ", "s", "t", "a", "r", "t">>,
      <<"s", "t", "a", "r", "t", " ", "o", "v", "e", "r">>,
      <<"S", "t", "a", "r", "t", " ", "O", "v", "e", "r">>,
      <<"s", "t", "a", "r", "t", "o", "v", "e", "r">>,
      <<"s", "t", "a", "r", "t", " ", " ", "o", "v", "e", "r">>,
      <<"f", "o", "r", "w", "a", "r", "d">>,
      <<>> }

\* what stands before and after them
GoBackBorders == { <<>>,
                   <<" ">>,
                   <<"x">>,
                   <<"f", "e", "e", "d">>,
                   <<"s", "!">> }

\* the words between borders, and the two texts of the examples
GoBackTexts ==
    { before \o word \o after :
        before \in GoBackBorders, word \in GoBackWords, after \in GoBackBorders }
    \cup { <<"l", "e", "t", "'", "s", " ", "g", "o", " ", "b", "a", "c", "k", " ", "p", "l", "e", "a", "s", "e">>,
           <<"g", "o", "i", "n", "g", " ", "f", "o", "r", "w", "a", "r", "d">> }

CallCheckGoBack ==
    /\ last_input = None
    /\ \E message \in GoBackTexts :
        /\ last_input' = Some([endpoint |-> "check_go_back", body |-> [message |-> message]])
        /\ response' = Some(check_go_back(message))
        /\ UNCHANGED <<current_step, temp_data, models, sessions, today, run, earlier,
                       conversations, trained_models, account_vars>>

NextFunctions == CallTrendIndicator \/ CallExtractNumber \/ CallCheckGoBack

SpecFunctions == InitUsers /\ [][NextFunctions]_vars

\* the function called last (meaningful when a call was made)
Called(function) == last_input # None /\ last_input[1].endpoint = function

(* C25: get_trend_indicator returns the empty text when the average is 0;   *)
(* otherwise, with d = (current - average) / average * 100, it returns the  *)
(* 'above' label when d > 10, the 'below' label when d < -10 and            *)
(* 'consistent' when -10 <= d <= 10; with lower_is_better the labels are    *)
(* 'higher than your average' for d > 10 and 'better than your average'     *)
(* for d < -10.                                                             *)
C25_TrendDeadband ==
    Called("get_trend_indicator") =>
        LET current == Req.current
            average == Req.average
            \* d > 10 and d < -10, multiplied by |average| / 10
            over    == IF average > 0 THEN (current - average) * 10 > average
                       ELSE (current - average) * 10 < average
            under   == IF average > 0 THEN (current - average) * 10 < 0 - average
                       ELSE (current - average) * 10 > 0 - average
        IN  response[1] =
              IF average = 0 THEN ""
              ELSE IF over
              THEN (IF Req.lower_is_better THEN "higher_than_your_average"
                    ELSE "above_your_average")
              ELSE IF under
              THEN (IF Req.lower_is_better THEN "better_than_your_average"
                    ELSE "below_your_average")
              ELSE "consistent"

-----------------------------------------------------------------------------
(* routers/user.py: POST /user, GET /user/{user_id}/stats.  An average is   *)
(* the exact quotient [num, den] of a sum in tenths and a count (None for   *)
(* the NULL that AVG gives over no rows).                                   *)

\* db.query(User).filter(User.username == username).first()
UserNamed(table, username) ==
    LET found == {i \in 1..Len(table) : table[i].username = username}
    IN  IF found = {} THEN None
        ELSE Some(table[CHOOSE i \in found : \A j \in found : i <= j])

\* mutant: the users table has no unique index on username
Insert_NoUniqueIndex(table, username, today_) ==
    [committed |-> TRUE,
     table     |-> Append(table, [id |-> Len(table) + 1, username |-> username,
                                  created_at |-> today_])]

\* db.add(new_user); db.commit(): the unique index on username (models/user.py)
\* refuses a second row of the same name
Insert(table, username, today_) ==
    IF UserNamed(table, username) # None
    THEN [committed |-> FALSE, table |-> table]
    ELSE [committed |-> TRUE,
          table     |-> Append(table, [id |-> Len(table) + 1, username |-> username,
                                       created_at |-> today_])]

\* func.avg(column) over rows
Average(rows, column) ==
    IF rows = <<>> THEN None
    ELSE Some([num |-> SumOver(rows, column), den |-> Len(rows)])

\* The pairs <<recent, overall>> of averages, in tenths, with recent exactly
\* 5% above or below overall, for which ((recent - overall) / overall) * 100
\* computed in binary floating point is beyond 5 or -5: all such pairs with
\* an overall average up to 24.0.  For averages that are whole or half
\* numbers the double is exactly 5.0 or -5.0.
FloatBeyondFivePercent ==
    { <<21, 20>>, <<19, 20>>, <<42, 40>>, <<38, 40>>, <<84, 80>>, <<76, 80>>,
      <<168, 160>>, <<152, 160>>, <<231, 220>>, <<209, 220>> }

\* recent_avg is Optional; diff_percent > 5 is 20 * (r - o) > o for o > 0
calculate_trend(recent_avg, overall_avg) ==
    IF recent_avg = None \/ overall_avg.num = 0 THEN [arrow |-> "level", word |-> "stable"]
    ELSE LET r      == recent_avg[1]
             o      == overall_avg
             d      == 20 * (r.num * o.den - o.num * r.den)
             b      == o.num * r.den
             beyond == /\ r.num % r.den = 0 /\ o.num % o.den = 0
                       /\ <<r.num \div r.den, o.num \div o.den>> \in FloatBeyondFivePercent
         IN  IF (IF b > 0 THEN d > b ELSE d < b) \/ (d = b /\ beyond)
             THEN [arrow |-> "up", word |-> "improving"]
             ELSE IF (IF b > 0 THEN d < 0 - b ELSE d > 0 - b) \/ (d = 0 - b /\ beyond)
             THEN [arrow |-> "down", word |-> "declining"]
             ELSE [arrow |-> "level", word |-> "stable"]

NotFound == [status |-> 404, body |-> None]

ServerError == [status |-> 500, body |-> None]

\* GET /user/{user_id}/stats: the total, whether there are recent averages,
\* and the four trends (the averages themselves are left out)
get_user_stats(user_id, users_table, table, today_) ==
    IF \A i \in 1..Len(users_table) : users_table[i].id # user_id THEN NotFound
    ELSE LET all    == RowsOf(table, user_id, 0 - 1)
             recent == RowsOf(table, user_id, today_ - 7)
             zero   == [num |-> 0, den |-> 1]
             \* scores are kept in hundredths
             avg(rows, column) ==
                 IF column = "daily_score" /\ rows # <<>>
                 THEN Some([num |-> SumOver(rows, column), den |-> 10 * Len(rows)])
                 ELSE Average(rows, column)
             r(column) == IF avg(recent, column) # None THEN avg(recent, column)[1] ELSE zero
             trend(column) == calculate_trend(Some(r(column)), avg(all, column)[1])
             stress_raw == trend("stress_level")
         IN  IF all = <<>>
             THEN Ok([user_id |-> user_id, total_sessions |-> 0, recent_averages |-> FALSE,
                      sleep_trend |-> None, stress_trend |-> None,
                      mood_trend |-> None, score_trend |-> None])
             ELSE Ok([user_id         |-> user_id,
                      total_sessions  |-> Len(all),
                      recent_averages |-> recent # <<>>,
                      sleep_trend     |-> Some(trend("sleep_hours")),
                      stress_trend    |->
                          Some(IF stress_raw.word = "improving"
                               THEN [arrow |-> "down", word |-> "increasing"]
                               ELSE IF stress_raw.word = "declining"
                               THEN [arrow |-> "up", word |-> "decreasing"]
                               ELSE [arrow |-> "level", word |-> "stable"]),
                      mood_trend      |-> Some(trend("mood_score")),
                      score_trend     |-> Some(trend("daily_score"))])

-----------------------------------------------------------------------------
(* The user router at work: callers register and look up usernames, two of  *)
(* them at a time, and read the statistics of users 1 and 2.                *)

Usernames == {"ann", "bob", "cy"}

\* the users table of a server that has stored sessions of users 1 and 2
Registered ==
    <<[id |-> 1, username |-> "ann", created_at |-> 0],
      [id |-> 2, username |-> "bob", created_at |-> 0]>>

\* what habit_sessions may hold on day 10: nothing; old rows only; a recent
\* row above and one below an old row; recent rows only; a recent row
\* exactly 5% above an old one (8.4 and 7.6: overall 8.0) and one for which
\* the double stays within (6.3 and 5.7); rows of user 2 with an old row of
\* user 1
StatsTables ==
    { <<>>,
      Numbered(<<Row(1, 1, <<70, 60, 70, 70>>, 6500), Row(1, 2, <<80, 60, 60, 70>>, 7000)>>),
      Numbered(<<Row(1, 1, <<60, 50, 50, 50>>, 5000), Row(1, 8, <<80, 50, 80, 80>>, 8000)>>),
      Numbered(<<Row(1, 1, <<80, 50, 80, 80>>, 8000), Row(1, 8, <<60, 50, 50, 50>>, 5000)>>),
      Numbered(<<Row(1, 8, <<70, 60, 70, 70>>, 6500), Row(1, 9, <<80, 60, 60, 70>>, 7000)>>),
      Numbered(<<Row(1, 1, <<76, 50, 76, 84>>, 7600), Row(1, 8, <<84, 50, 84, 76>>, 8400)>>),
      Numbered(<<Row(1, 2, <<57, 50, 63, 57>>, 6000), Row(1, 9, <<63, 50, 57, 63>>, 6300)>>),
      Numbered(<<Row(2, 8, <<70, 60, 70, 70>>, 6500), Row(1, 1, <<70, 50, 70, 70>>, 7000),
                 Row(2, 9, <<80, 60, 60, 70>>, 7000)>>) }

InitAccounts ==
    /\ current_step = 0
    /\ temp_data = EmptyDict
    /\ last_input = None
    /\ response = None
    /\ models = [regressor |-> DummyModel, classifier |-> DummyModel, clusterer |-> DummyModel]
    /\ trained_models = Installed(models)
    /\ sessions \in StatsTables
    /\ today = ReportDay
    /\ run = 0
    /\ earlier = None
    /\ conversations = <<>>
    /\ users = IF sessions = <<>> THEN <<>> ELSE Registered
    /\ pending = [caller \in Callers |-> None]
    /\ returned = {}

\* POST /user up to its first return: the username is looked up and, when a
\* user has it, that user is returned
CreateOrGetUserLookup ==
    \E caller \in Callers, username \in Usernames :
        LET existing_user == UserNamed(users, username)
        IN  /\ pending[caller] = None
            /\ last_input' = Some([endpoint |-> "user", body |-> [username |-> username]])
            /\ IF existing_user # None
               THEN /\ response' = Some(Ok(existing_user[1]))
                    /\ returned' = returned \cup {<<username, existing_user[1].id>>}
                    /\ UNCHANGED pending
               ELSE /\ response' = None
                    /\ pending' = [pending EXCEPT ![caller] = Some(username)]
                    /\ UNCHANGED returned
            /\ UNCHANGED <<users, current_step, temp_data, models, sessions, today, run,
                           earlier, conversations, trained_models>>

\* POST /user from db.add to its return: the new user is committed and
\* returned, unless the commit raises
CreateOrGetUserCommit ==
    \E caller \in Callers :
        /\ pending[caller] # None
        /\ LET username == pending[caller][1]
               outcome  == Insert(users, username, today)
           IN  /\ last_input' = Some([endpoint |-> "user", body |-> [username |-> username]])
               /\ users' = outcome.table
               /\ IF outcome.committed
                  THEN /\ response' = Some(Ok(users'[Len(users')]))
                       /\ returned' = returned \cup {<<username, Len(users')>>}
                  ELSE /\ response' = Some(ServerError)
                       /\ UNCHANGED returned
        /\ pending' = [pending EXCEPT ![caller] = None]
        /\ UNCHANGED <<current_step, temp_data, models, sessions, today, run,
                       earlier, conversations, trained_models>>

GetUserStats ==
    \E user_id \in {1, 2} :
        /\ last_input' = Some([endpoint |-> "stats", body |-> [user_id |-> user_id]])
        /\ response' = Some(get_user_stats(user_id, users, sessions, today))
        /\ UNCHANGED <<current_step, temp_data, models, sessions, today, run,
                       earlier, conversations, trained_models, account_vars>>

NextAccounts == CreateOrGetUserLookup \/ CreateOrGetUserCommit \/ GetUserStats

SpecAccounts == InitAccounts /\ [][NextAccounts]_vars

\* GET /user/{user_id}/stats was answered for a user with stored sessions
StatsAnswered ==
    /\ Called("stats") /\ response[1].status = 200
    /\ Resp.total_sessions > 0

\* 1, -1 or 0: the recent 7-day average of the column is more than 5% above
\* the overall average of the user, more than 5% below it, or neither (as
\* when there is no recent average, or the overall average is 0)
RecentAgainstOverall(column) ==
    LET all    == RowsOf(sessions, Req.user_id, 0 - 1)
        recent == RowsOf(sessions, Req.user_id, today - 7)
        o      == SumOver(all, column) * Len(recent)
        d      == 20 * (SumOver(recent, column) * Len(all) - o)
    IN  IF recent = <<>> \/ o = 0 THEN 0
        ELSE IF (IF o > 0 THEN d > o ELSE d < o) THEN 1
        ELSE IF (IF o > 0 THEN d < 0 - o ELSE d > 0 - o) THEN 0 - 1
        ELSE 0

(* C26: in the statistics of a user, the stress trend is 'increasing'       *)
(* exactly when the recent 7-day stress average is more than 5% above the   *)
(* overall average, 'decreasing' exactly when it is more than 5% below, and *)
(* 'stable' otherwise; sleep, mood and score are 'improving', 'declining'   *)
(* and 'stable' in the same three cases.                                    *)
C26_StatsTrendDeadband ==
    StatsAnswered =>
        LET word(column, up, down) ==
                CASE RecentAgainstOverall(column) = 1 -> up
                  [] RecentAgainstOverall(column) = 0 - 1 -> down
                  [] OTHER -> "stable"
        IN  /\ Resp.stress_trend[1].word = word("stress_level", "increasing", "decreasing")
            /\ Resp.sleep_trend[1].word = word("sleep_hours", "improving", "declining")
            /\ Resp.mood_trend[1].word = word("mood_score", "improving", "declining")
            /\ Resp.score_trend[1].word = word("daily_score", "improving", "declining")

(* C27: create_or_get_user is idempotent: after any sequence of calls,      *)
(* every call made with the same username returned the same user id, and    *)
(* the users table never holds two users with the same username.            *)
C27_CreateOrGetIdempotent ==
    /\ \A a \in returned, b \in returned : a[1] = b[1] => a[2] = b[2]
    /\ \A i \in 1..Len(users), j \in 1..Len(users) :
          users[i].username = users[j].username => i = j

\* on a server that started without users, "ann" was created as user 1, then
\* "bob" as user 2, and a later call with "ann" returned user 1 again
C27_Witness ==
    /\ sessions = <<>>
    /\ Len(users) = 2 /\ users[1].username = "ann" /\ users[2].username = "bob"
    /\ Called("user") /\ Req.username = "ann"
    /\ response # None /\ response[1].status = 200 /\ Resp.id = 1
    /\ returned = {<<"ann", 1>>, <<"bob", 2>>}

-----------------------------------------------------------------------------
(* extract_number against the pattern read as a grammar *)

\* s is an optional sign, optional integer digits, an optional point, digits
IsNumber(s) ==
    \E a \in 0..1, b \in 0..Len(s), c \in 0..1 :
        /\ a + b + c < Len(s)
        /\ a = 1 => s[1] \in {"-", "+"}
        /\ \A k \in (a + 1)..(a + b) : s[k] \in DigitChars
        /\ c = 1 => s[a + b + 1] = "."
        /\ \A k \in (a + b + c + 1)..Len(s) : s[k] \in DigitChars

\* the value in tenths of a number with at most one digit after its point
ValueOf(s) ==
    LET body   == IF s[1] \in {"-", "+"} THEN Tail(s) ELSE s
        points == {k \in 1..Len(body) : body[k] = "."}
        p      == IF points = {} THEN Len(body) + 1 ELSE CHOOSE k \in points : TRUE
        whole  == IntVal(SubSeq(body, 1, p - 1))
        tenths == IntVal(SubSeq(body, p + 1, Len(body)))
        magn   == 10 * whole + tenths
    IN  IF s[1] = "-" THEN 0 - magn ELSE magn

\* the leftmost substring of the text that is a number, the longest of those
\* that start there, as <<first, last>>; None when no substring is a number
LeftmostNumber(text) ==
    LET numbers == { w \in (1..Len(text)) \X (1..Len(text)) :
                       w[1] <= w[2] /\ IsNumber(SubSeq(text, w[1], w[2])) }
    IN  IF numbers = {} THEN None
        ELSE Some(CHOOSE w \in numbers :
                      \A v \in numbers : w[1] < v[1] \/ (w[1] = v[1] /\ w[2] >= v[2]))

(* C28: extract_number returns no number exactly when the text contains no  *)
(* digit; otherwise it returns the value of the leftmost substring that is  *)
(* an optional sign, optional integer digits, an optional point and digits, *)
(* whatever number or number word follows: 'about 8.5 hours' gives 8.5 and  *)
(* 'seven hours' gives no number.                                           *)
C28_ExtractNumberLeftmost ==
    Called("extract_number") =>
        LET text   == Req.text
            number == LeftmostNumber(text)
        IN  /\ response[1] = None <=> \A i \in 1..Len(text) : text[i] \notin DigitChars
            /\ response[1] # None =>
                  /\ number # None
                  /\ response[1][1] = ValueOf(SubSeq(text, number[1][1], number[1][2]))
            /\ text = <<"a", "b", "o", "u", "t", " ", "8", ".", "5", " ", "h", "o", "u", "r", "s">> => response[1] = Some(85)
            /\ text = <<"s", "e", "v", "e", "n", " ", "h", "o", "u", "r", "s">> => response[1] = None

\* "5+8", where a second number follows the first, gave 5.0
C28_Witness ==
    /\ Called("extract_number")
    /\ Req.text = <<"5", "+", "8">>
    /\ response[1] = Some(50)

-----------------------------------------------------------------------------
(* check_go_back against the keywords read letter by letter *)

\* one character, or the two cases of one letter
SameLetter(a, b) ==
    \/ a = b
    \/ \E n \in 1..Len(LowerCase) : {a, b} = {LowerCase[n], UpperCase[n]}

\* the word stands somewhere in the message, in whatever case
ContainsIgnoringCase(message, word) ==
    \E i \in 0..(Len(message) - Len(word)) :
        \A j \in 1..Len(word) : SameLetter(message[i + j], word[j])

(* C29: check_go_back returns true exactly when the message, compared       *)
(* without regard to case, contains one of the keywords back, undo,         *)
(* previous, go back, restart, start over as a substring: "let's go back    *)
(* please" gives true and "going forward" gives false.                      *)
C29_GoBackKeywords ==
    Called("check_go_back") =>
        /\ response[1] <=>
              \/ ContainsIgnoringCase(Req.message, <<"b", "a", "c", "k">>)
              \/ ContainsIgnoringCase(Req.message, <<"u", "n", "d", "o">>)
              \/ ContainsIgnoringCase(Req.message, <<"p", "r", "e", "v", "i", "o", "u", "s">>)
              \/ ContainsIgnoringCase(Req.message, <<"g", "o", " ", "b", "a", "c", "k">>)
              \/ ContainsIgnoringCase(Req.message, <<"r", "e", "s", "t", "a", "r", "t">>)
              \/ ContainsIgnoringCase(Req.message, <<"s", "t", "a", "r", "t", " ", "o", "v", "e", "r">>)
        /\ Req.message = <<"l", "e", "t", "'", "s", " ", "g", "o", " ", "b", "a", "c", "k", " ", "p", "l", "e", "a", "s", "e">> => response[1]
        /\ Req.message = <<"g", "o", "i", "n", "g", " ", "f", "o", "r", "w", "a", "r", "d">> => ~ response[1]

\* "feedBACK" was taken as a wish to go back
C29_Witness ==
    /\ Called("check_go_back")
    /\ Req.message = <<"f", "e", "e", "d", "B", "A", "C", "K">>
    /\ response[1]

-----------------------------------------------------------------------------
(* The clamping steps on their own: a client, signed in or not, submits a   *)
(* text at one of the steps 2 to 6 with the other metrics of a day.         *)

MetricData == Restrict(PlausibleData, DataKeys \ {"hydration"})

\* the texts of Messages with a number: below, inside and above the ranges,
\* and one with a back keyword
MetricMessages ==
    { <<"a", "b", "o", "u", "t", " ", "8", ".", "5", " ", "h", "o", "u", "r", "s">>,
      <<"0", ".", "5">>,
      <<"2", "5">>,
      <<"-", "3">>,
      <<"G", "o", " ", "b", "a", "c", "k", " ", "5">> }

SubmitMetric ==
    \E step \in 2..6, user_message \in MetricMessages, user_id \in {None, Some(1)} :
        /\ Post(step, MetricData, user_message, user_id)
        /\ Len(sessions') <= MaxSessions
        /\ UNCHANGED <<earlier, conversations>>

SpecMetrics == InitUsers /\ [][SubmitMetric]_vars

\* The turn stored its number brought into the range of its step and went
\* on: the answer holds the value under the key of the step and the next
\* step; at step 6 the answer is the prediction, the step is 0, and the
\* value is the hydration of the session stored for the user.
ClampedAndAdvanced ==
    LET step == Req.current_step
        x    == ReqNumber[1]
        key  == CASE step = 2 -> "work_intensity" [] step = 3 -> "stress_level"
                  [] step = 4 -> "mood_score"     [] step = 5 -> "screen_time"
                  [] step = 6 -> "hydration"
        lo   == IF step \in {2, 3, 4} THEN 10 ELSE 0
        hi   == CASE step \in {2, 3, 4} -> 100 [] step = 5 -> 240 [] step = 6 -> 200
        v    == IF x < lo THEN lo ELSE IF x > hi THEN hi ELSE x
    IN  /\ response[1].status = 200
        /\ IF step < 6
           THEN /\ Resp.next_step = step + 1
                /\ Resp.prediction = None
                /\ key \in DOMAIN Resp.updated_data
                /\ Resp.updated_data[key] = v
           ELSE /\ Resp.next_step = 0
                /\ Resp.prediction # None
                /\ IsTrue(Req.user_id) =>
                      /\ sessions # <<>>
                      /\ sessions[Len(sessions)].user_id = Req.user_id[1]
                      /\ sessions[Len(sessions)].hydration = v

(* C30 as stated: at steps 2-6, for any extracted number x and the range    *)
(* [lo,hi] of the step (work, stress, mood: [1,10]; screen: [0,24];         *)
(* hydration: [0,20]), the stored value is x when lo <= x <= hi, lo when    *)
(* x < lo and hi when x > hi; the turn advances to the next step (completes *)
(* at step 6) and never re-prompts because of the range.                    *)
C30_ClampedForAnyNumber ==
    (TalkAnswered /\ Req.current_step \in 2..6 /\ ReqNumber # None)
    => ClampedAndAdvanced

(* C30 amended: the same, for every turn at steps 2-6 from whose message a  *)
(* number is extracted and which contains no back keyword.                  *)
C30_ClampedWithoutBackKeyword ==
    (TalkAnswered /\ Req.current_step \in 2..6 /\ ReqNumber # None /\ ~ReqGoBack)
    => ClampedAndAdvanced

\* user 1 typed "25" at step 6 and the session stored holds 20 glasses
C30_Witness ==
    /\ TalkAnswered /\ Req.current_step = 6 /\ Req.user_id = Some(1)
    /\ ReqNumber = Some(250) /\ ~ReqGoBack
    /\ Resp.prediction # None
    /\ sessions # <<>> /\ sessions[Len(sessions)].hydration = 200

-----------------------------------------------------------------------------
(* The statistics of a user without a recent session, and two callers       *)
(* registering one name                                                     *)

\* the user asked about has stored sessions, none of them of the last 7 days
NoRecentSession ==
    /\ RowsOf(sessions, Req.user_id, 0 - 1) # <<>>
    /\ RowsOf(sessions, Req.user_id, today - 7) = <<>>

(* C37: for a user who has stored sessions but none within the last 7 days, *)
(* get_user_stats reports the sleep, stress, mood and score trends all as   *)
(* 'stable'.                                                                *)
C37_NoRecentSessionsStable ==
    (StatsAnswered /\ NoRecentSession) =>
        /\ Resp.sleep_trend[1].word = "stable"
        /\ Resp.stress_trend[1].word = "stable"
        /\ Resp.mood_trend[1].word = "stable"
        /\ Resp.score_trend[1].word = "stable"

(* C38: when two create_or_get_user calls with the same not-yet-existing    *)
(* username are interleaved in any way, both calls return successfully with *)
(* the same user and exactly one user row exists afterwards: every call     *)
(* that has returned was answered with status 200 and the one user of its   *)
(* username.                                                                *)
C38_InterleavedCallsBothSucceed ==
    (Called("user") /\ response # None) =>
        /\ response[1].status = 200
        /\ Resp.username = Req.username
        /\ \A i \in 1..Len(users) : users[i].username = Req.username => users[i].id = Resp.id
        /\ <<Req.username, Resp.id>> \in returned

-----------------------------------------------------------------------------
(* The conversation as a whole: what the client holds at each step          *)

\* the metrics in the order of the steps that ask for them
StepMetrics ==
    <<"sleep_hours", "work_intensity", "stress_level", "mood_score", "screen_time",
      "hydration">>

\* the metrics of the steps 1..k-1
HeldAt(k) == {StepMetrics[i] : i \in 1..(k - 1)}

(* C31: in a conversation started at step 0 with empty data, the caller     *)
(* re-submitting what it was given, whenever the current step is k the data *)
(* holds exactly the metrics of steps 1..k-1 (none at steps 0 and 1); hence *)
(* whenever a prediction is computed the data submitted holds the five      *)
(* metrics of steps 1..5, and with the hydration of the turn all six are    *)
(* present.                                                                 *)
C31_DataHoldsEarlierSteps ==
    /\ current_step \in 0..6
    /\ DOMAIN temp_data = HeldAt(current_step)
    /\ (TalkAnswered /\ Resp.prediction # None) =>
          /\ DOMAIN Req.temp_data = HeldAt(6)
          /\ DOMAIN Stored = HeldAt(7)

\* a go-back at step 4 left the client at step 3 with sleep and work only
C31_Witness ==
    /\ TalkAnswered /\ ReqGoBack /\ Req.current_step = 4
    /\ current_step = 3
    /\ DOMAIN temp_data = {"sleep_hours", "work_intensity"}

-----------------------------------------------------------------------------
(* The conversation with its runs of go-back turns counted: earlier holds   *)
(* the step at which the present run of go-back turns began and the number  *)
(* of its turns, and nothing after any other turn.                          *)

TurnCounted ==
    \E user_message \in Messages :
        /\ Post(current_step, temp_data, user_message, None)
        /\ earlier' =
              IF Understood[user_message].go_back /\ current_step >= 1
              THEN IF earlier = None
                   THEN Some([from |-> current_step, turns |-> 1])
                   ELSE Some([earlier[1] EXCEPT !.turns = @ + 1])
              ELSE None
        /\ UNCHANGED conversations

SpecBackwards == InitConversation /\ [][TurnCounted]_vars

(* C32: from any state at step k >= 1 of a conversation started at step 0   *)
(* with empty data, k consecutive turns with a back keyword lead to step 0  *)
(* with empty data, through the steps k-1, ..., 1 in order, and none of     *)
(* them returns a prediction: after the n-th of them the step is k-n.       *)
C32_GoBacksLeadToStart ==
    earlier # None =>
        LET k == earlier[1].from
            n == earlier[1].turns
        IN  /\ n <= k
            /\ current_step = k - n
            /\ response[1].status = 200 /\ Resp.next_step = k - n
            /\ Resp.prediction = None
            /\ n = k => temp_data = EmptyDict /\ Resp.updated_data = EmptyDict

\* six go-back turns from step 6 ended at step 0
C32_Witness ==
    /\ earlier = Some([from |-> 6, turns |-> 6])
    /\ current_step = 0 /\ temp_data = EmptyDict

-----------------------------------------------------------------------------
(* The conversation with its corrections remembered: after a go-back turn   *)
(* at a step 2..6 earlier holds that step and the data the client held      *)
(* before it, and, when the next turn enters an acceptable value, that      *)
(* value; it holds nothing after any other turn.                            *)

TurnRemembered ==
    \E user_message \in Messages :
        /\ Post(current_step, temp_data, user_message, None)
        /\ earlier' =
              IF Understood[user_message].go_back /\ current_step \in 2..6
              THEN Some([step |-> current_step, data |-> temp_data, entered |-> None])
              ELSE IF /\ earlier # None
                      /\ earlier[1].entered = None
                      /\ Acceptable(current_step, user_message)
              THEN Some([earlier[1] EXCEPT
                           !.entered = Understood[user_message].number_val])
              ELSE None
        /\ UNCHANGED conversations

SpecCorrections == InitConversation /\ [][TurnRemembered]_vars

\* a go-back turn was followed by a turn that entered an acceptable value
Corrected == earlier # None /\ earlier[1].entered # None

(* C33: a go-back turn at step k (2 <= k <= 6) followed by a turn at step   *)
(* k-1 that enters an acceptable value v returns to step k with the data    *)
(* held before the go-back, except that the metric of step k-1 holds v      *)
(* brought into its range; entering the original value restores the         *)
(* original data exactly.                                                   *)
C33_GoBackThenReenter ==
    Corrected =>
        LET k      == earlier[1].step
            before == earlier[1].data
            v      == earlier[1].entered[1]
            key    == StepMetrics[k - 1]
            lo     == IF k - 1 \in {2, 3, 4} THEN 10 ELSE 0
            hi     == IF k - 1 \in {2, 3, 4} THEN 100 ELSE 240
            stored == IF v < lo THEN lo ELSE IF v > hi THEN hi ELSE v
        IN  /\ Req.current_step = k - 1
            /\ current_step = k /\ Resp.next_step = k
            /\ DOMAIN temp_data = DOMAIN before \cup {key}
            /\ temp_data[key] = stored
            /\ \A other \in DOMAIN before \ {key} : temp_data[other] = before[other]
            /\ Resp.updated_data = temp_data
            /\ (key \in DOMAIN before /\ v = before[key]) => temp_data = before

\* stress 8.5 was taken back at step 4 and 25 was entered instead: 10
C33_Witness ==
    /\ Corrected
    /\ earlier[1].step = 4
    /\ earlier[1].data["stress_level"] = 85
    /\ earlier[1].entered = Some(250)
    /\ current_step = 4 /\ temp_data["stress_level"] = 100

-----------------------------------------------------------------------------
(* The conversation with its runs of accepted turns counted: earlier holds  *)
(* the step at which the present run of turns with an acceptable number and *)
(* no back keyword began and the number of its turns; a run ends with the   *)
(* prediction, and with any other turn.                                     *)

\* the turns a run that begins at step k takes to the prediction
TurnsToPrediction(k) == IF k = 0 THEN 7 ELSE 7 - k

TurnAccepted ==
    \E user_message \in Messages :
        /\ Post(current_step, temp_data, user_message, None)
        /\ earlier' =
              IF ~ Acceptable(current_step, user_message) THEN None
              ELSE IF earlier = None \/ earlier[1].turns = TurnsToPrediction(earlier[1].from)
              THEN Some([from |-> current_step, turns |-> 1])
              ELSE Some([earlier[1] EXCEPT !.turns = @ + 1])
        /\ UNCHANGED conversations

SpecForwards == InitConversation /\ [][TurnAccepted]_vars

(* C34: from any state of a conversation, once every message carries an     *)
(* acceptable number and no back keyword a prediction is returned within 7  *)
(* turns: by the 7th turn of a run that begins at step 0 and by the         *)
(* (7-k)-th turn of a run that begins at step k >= 1, and by no turn of the *)
(* run before that one.                                                     *)
C34_PredictionWithinSevenTurns ==
    earlier # None =>
        LET k == earlier[1].from
            n == earlier[1].turns
        IN  /\ n <= TurnsToPrediction(k) /\ TurnsToPrediction(k) <= 7
            /\ response[1].status = 200
            /\ (Resp.prediction # None) <=> (n = TurnsToPrediction(k))
            /\ n < TurnsToPrediction(k) => current_step = (IF k = 0 THEN n ELSE k + n)

\* the 7th turn of a run that began at step 0 returned the prediction
C34_Witness ==
    /\ earlier = Some([from |-> 0, turns |-> 7])
    /\ Resp.prediction # None /\ current_step = 0

-----------------------------------------------------------------------------
(* What a turn adds to habit_sessions                                       *)

\* the turn answered last returned a prediction to a caller with a user id
CompletedForUser ==
    /\ TalkAnswered /\ response[1].status = 200
    /\ Resp.prediction # None
    /\ IsTrue(Req.user_id)

(* C35: each completion turn made with a user id adds exactly one session   *)
(* record, which holds the six metrics used for scoring and the daily       *)
(* score, classification and persona of the prediction returned; every      *)
(* other turn (welcome, re-prompt, accepted value, go-back, completion      *)
(* without user id) leaves the stored sessions unchanged.                   *)
C35_OneRecordPerCompletion ==
    [][ IF CompletedForUser'
        THEN /\ Len(sessions') = Len(sessions) + 1
             /\ SubSeq(sessions', 1, Len(sessions)) = sessions
             /\ LastRowIs(RowToStore)'
        ELSE sessions' = sessions ]_vars

-----------------------------------------------------------------------------
(* What the stored history of a user can change in an answer                *)

\* the answer to the turn submitted last, had it come without user id to a
\* server without stored sessions
AnswerWithoutHistory ==
    chat_with_ai([Req EXCEPT !.user_id = None], <<>>, today, models).response

(* C36: for fixed step, message, data and predictor outputs, two turns that *)
(* differ only in the stored history of the user, or in whether a user id   *)
(* is given, return the same next_step, updated_data, daily_score,          *)
(* day_classification and persona: each turn returns those of the turn      *)
(* without user id and without history.                                     *)
C36_HistoryChangesOnlyAdvice ==
    (TalkAnswered /\ response[1].status = 200) =>
        /\ Resp.next_step = AnswerWithoutHistory.next_step
        /\ Resp.updated_data = AnswerWithoutHistory.updated_data
        /\ (Resp.prediction = None) <=> (AnswerWithoutHistory.prediction = None)
        /\ Resp.prediction # None =>
              /\ Prediction.daily_score = AnswerWithoutHistory.prediction[1].daily_score
              /\ Prediction.day_classification =
                     AnswerWithoutHistory.prediction[1].day_classification
              /\ Prediction.persona = AnswerWithoutHistory.prediction[1].persona

\* the history of user 1 changed the recommendations and the report
C36_Witness ==
    /\ TalkAnswered /\ Req.user_id = Some(1)
    /\ Resp.prediction # None
    /\ Prediction.recommendations # AnswerWithoutHistory.prediction[1].recommendations
    /\ Resp.bot_message # AnswerWithoutHistory.bot_message
    /\ Prediction.daily_score = AnswerWithoutHistory.prediction[1].daily_score

=============================================================================
